---- MODULE Spec2Model ----
(***************************************************************************)
(* A model of the snafu-derive front end: the attribute grammar parser     *)
(* (parse.rs), the AtMostOne ledger, the field classifier and the          *)
(* container resolver (lib.rs), and the error sponge that merges the       *)
(* per-variant diagnostic lists.                                           *)
(*                                                                         *)
(* Conventions.  An Option<T> is a sequence of length at most one: <<>> is *)
(* None and <<x>> is Some(x).  A span / token stream is a record naming    *)
(* the position in the derive input it covers (variant v, field f,         *)
(* annotation a, item i; 0 stands for "the enclosing element itself").     *)
(* A diagnostic is [tokens, message]; a message is the sequence of the     *)
(* pieces that the code's format! call joins, with the back quotes of the  *)
(* Rust text written as apostrophes.                                       *)
(***************************************************************************)
EXTENDS Naturals, Sequences, FiniteSets, TLC

VARIABLES input, pc, errors, enum_info, vi, sponge, mapped, result, output,
          ledger, calls, finished

vars == <<input, pc, errors, enum_info, vi, sponge, mapped, result, output,
          ledger, calls, finished>>

(***************************************************************************)
(* Bounds of the model.                                                    *)
(***************************************************************************)
MaxAdds == 4
MaxFields == 2
MaxScopeAttrs == 2
MaxFieldAttrs == 2
MaxVariants == 2
MaxDocLines == 3

None == <<>>
Some(x) == <<x>>
IsSome(o) == Len(o) > 0
IsNone(o) == Len(o) = 0
Unwrap(o) == o[1]

Span(v, f, a, i, part) == [v |-> v, f |-> f, a |-> a, i |-> i, part |-> part]

Diag(tokens, message) == [tokens |-> tokens, message |-> message]

(***************************************************************************)
(* ErrorLocation and the diagnostics phrased with it.                      *)
(***************************************************************************)
ErrorLocationDisplay(location) ==
    CASE location = "OnEnum" -> "on an enum"
      [] location = "OnVariant" -> "on an enum variant"
      [] location = "InVariant" -> "within an enum variant"
      [] location = "OnField" -> "on a field"
      [] location = "OnNamedStruct" -> "on a named struct"
      [] location = "InNamedStruct" -> "within a named struct"
      [] location = "OnTupleStruct" -> "on a tuple struct"

OnlyValidOn(attribute, valid_on, location) ==
    <<"'", attribute, "' attribute is only valid on ", valid_on, ", not ",
      ErrorLocationDisplay(location)>>

WrongField(attribute, valid_field, location) ==
    <<"'", attribute, "' attribute is only valid on a field named \"",
      valid_field, "\", not on other fields">>

IncompatibleAttributes(attrs_string, location) ==
    <<"Incompatible attributes [", attrs_string, "] specified ",
      ErrorLocationDisplay(location)>>

DuplicateAttribute(attribute, location) ==
    <<"Multiple '", attribute, "' attributes are not supported ",
      ErrorLocationDisplay(location)>>

VALID_VARIANT_OR_NAMED == "enum variants or structs with named fields"
VALID_FIELD == "enum variant or struct fields with a name"

ATTR_DISPLAY(location) == OnlyValidOn("display", VALID_VARIANT_OR_NAMED, location)
ATTR_SOURCE(location) == OnlyValidOn("source", VALID_FIELD, location)
ATTR_SOURCE_BOOL(location) == OnlyValidOn("source(bool)", VALID_FIELD, location)
ATTR_SOURCE_FALSE(location) == WrongField("source(false)", "source", location)
ATTR_SOURCE_FROM(location) == OnlyValidOn("source(from)", VALID_FIELD, location)
ATTR_BACKTRACE(location) == OnlyValidOn("backtrace", VALID_FIELD, location)
ATTR_BACKTRACE_FALSE(location) == WrongField("backtrace(false)", "backtrace", location)
ATTR_VISIBILITY(location) ==
    OnlyValidOn("visibility", "an enum, enum variants, or a struct with named fields", location)
ATTR_MODULE(location) ==
    OnlyValidOn("module", "an enum or structs with named fields", location)
ATTR_CONTEXT(location) == OnlyValidOn("context", VALID_VARIANT_OR_NAMED, location)
ATTR_WHATEVER(location) == OnlyValidOn("whatever", VALID_VARIANT_OR_NAMED, location)
ATTR_CRATE_ROOT(location) == OnlyValidOn("crate_root", "an enum or a struct", location)
SOURCE_BOOL_FROM_INCOMPATIBLE(location) ==
    IncompatibleAttributes("'source(false)', 'source(from)'", location)

(***************************************************************************)
(* SyntaxErrors: a list of diagnostics.                                    *)
(***************************************************************************)
SyntaxErrors_add(inner, tokens, description) == Append(inner, Diag(tokens, description))

SyntaxErrors_extend(inner, errs) == inner \o errs

(* MultiSynResult<T>: ok carries val (an Option), a failure carries err. *)
Ok(v) == [ok |-> TRUE, val |-> Some(v), err |-> <<>>]
Err(e) == [ok |-> FALSE, val |-> None, err |-> e]

(* finish that fails whatever the list holds *)
SyntaxErrors_finish_never_ok(inner) == Err(inner)

SyntaxErrors_finish(inner) == IF inner = <<>> THEN Ok("unit") ELSE Err(inner)

(* absorb that hands the result on whatever the list holds *)
SyntaxErrors_absorb_unchecked(inner, res) ==
    IF res.ok THEN res ELSE Err(inner \o res.err)

SyntaxErrors_absorb(inner, res) ==
    IF res.ok
    THEN IF SyntaxErrors_finish(inner).ok THEN res ELSE Err(inner)
    ELSE Err(inner \o res.err)

(***************************************************************************)
(* AtMostOne: the ledger of the occurrences of one attribute in one scope. *)
(***************************************************************************)
AtMostOne_new(name, location) ==
    [name |-> name, location |-> location, values |-> <<>>, errors |-> <<>>]

(* A ledger that forgets the values after the first one. *)
AtMostOne_add_first_only(self, item, tokens) ==
    [self EXCEPT
       !.errors = IF self.values # <<>>
                  THEN Append(@, [tokens |-> tokens,
                                  message |-> <<"Multiple '", self.name,
                                                "' attributes are not supported ",
                                                ErrorLocationDisplay(self.location)>>])
                  ELSE @,
       !.values = IF @ = <<>> THEN <<[item |-> item, tokens |-> tokens]>> ELSE @]

AtMostOne_add(self, item, tokens) ==
    [self EXCEPT
       !.errors = IF self.values # <<>>
                  THEN SyntaxErrors_add(@, tokens, DuplicateAttribute(self.name, self.location))
                  ELSE @,
       !.values = Append(@, [item |-> item, tokens |-> tokens])]

(* the last item added handed back (pop_back) *)
AtMostOne_finish_with_location_last(self) ==
    [value |-> IF self.values = <<>> THEN None ELSE Some(self.values[Len(self.values)]),
     errors |-> IF SyntaxErrors_finish(self.errors).ok THEN <<>>
                ELSE SyntaxErrors_finish(self.errors).err]

AtMostOne_finish_with_location(self) ==
    [value |-> IF self.values = <<>> THEN None ELSE Some(Head(self.values)),
     errors |-> IF SyntaxErrors_finish(self.errors).ok THEN <<>>
                ELSE SyntaxErrors_finish(self.errors).err]

AtMostOne_finish(self) ==
    [value |-> IF IsSome(AtMostOne_finish_with_location(self).value)
               THEN Some(Unwrap(AtMostOne_finish_with_location(self).value).item)
               ELSE None,
     errors |-> AtMostOne_finish_with_location(self).errors]

(***************************************************************************)
(* The derive input, as syn hands it over.                                 *)
(*   argument   [form, t1, t2]: a bool literal ("bool", "true"|"false"),   *)
(*              from(Type, expr) ("from", Type, expr), suffix(..)          *)
(*              ("suffix", text, "bool"|"ident"), or other tokens          *)
(*   item       [kw, paren, args]: one element of a #[snafu(..)] list      *)
(*   annotation [path, items, doc]: one #[..]; doc is Some(characters) for *)
(*              a #[doc = "literal"]                                       *)
(*   field      [ident, ty, attrs]; ident is an Option                     *)
(*   variant    [ident, attrs, fields_kind, fields]                        *)
(*   input      [data, ident, attrs, fields_kind, fields, variants]        *)
(***************************************************************************)
ArgBool(b) == [form |-> "bool", t1 |-> IF b THEN "true" ELSE "false", t2 |-> ""]
ArgFrom(ty, expr) == [form |-> "from", t1 |-> ty, t2 |-> expr]
ArgSuffixBool(b) == [form |-> "suffix", t1 |-> IF b THEN "true" ELSE "false", t2 |-> "bool"]
ArgSuffixIdent(id) == [form |-> "suffix", t1 |-> id, t2 |-> "ident"]
ArgTokens(t) == [form |-> "tokens", t1 |-> t, t2 |-> ""]

Item(kw, paren, args) == [kw |-> kw, paren |-> paren, args |-> args]
SnafuAnn(items) == [path |-> "snafu", items |-> items, doc |-> None]
DocAnn(chars) == [path |-> "doc", items |-> <<>>, doc |-> Some(chars)]
OtherAnn(path) == [path |-> path, items |-> <<>>, doc |-> None]

RawField(ident, ty, attrs) == [ident |-> Some(ident), ty |-> ty, attrs |-> attrs]
RawTupleField(ty, attrs) == [ident |-> None, ty |-> ty, attrs |-> attrs]
Variant(ident, attrs, fields_kind, fields) ==
    [ident |-> ident, attrs |-> attrs, fields_kind |-> fields_kind, fields |-> fields]
EnumInput(ident, attrs, variants) ==
    [data |-> "Enum", ident |-> ident, attrs |-> attrs, fields_kind |-> "Unit",
     fields |-> <<>>, variants |-> variants]
StructInput(ident, attrs, fields_kind, fields) ==
    [data |-> "Struct", ident |-> ident, attrs |-> attrs, fields_kind |-> fields_kind,
     fields |-> fields, variants |-> <<>>]

(***************************************************************************)
(* SnafuAttribute, Source, Context, SuffixKind, ModuleName.                *)
(***************************************************************************)
SuffixDefault == [kind |-> "Default", ident |-> ""]
SuffixNone == [kind |-> "None", ident |-> ""]
SuffixSome(id) == [kind |-> "Some", ident |-> id]

ContextFlag(b) == [tag |-> "Flag", b |-> b, suffix |-> SuffixNone]
ContextSuffix(k) == [tag |-> "Suffix", b |-> FALSE, suffix |-> k]

SourceFlag(v) == [tag |-> "Flag", v |-> v, ty |-> "", expr |-> ""]
SourceFrom(ty, expr) == [tag |-> "From", v |-> FALSE, ty |-> ty, expr |-> expr]

ModuleDefault == [kind |-> "Default", ident |-> ""]
ModuleCustom(id) == [kind |-> "Custom", ident |-> id]

(* One record shape for every SnafuAttribute: b is Backtrace's bool, ss      *)
(* Source's components, c Context's component, m Module's name, user_input   *)
(* the opaque tokens of Display / Visibility / CrateRoot, doc the doc line.  *)
SnafuAttribute(kind, tokens) ==
    [kind |-> kind, tokens |-> tokens, b |-> FALSE, ss |-> <<>>,
     c |-> ContextFlag(FALSE), m |-> ModuleDefault, user_input |-> <<>>, doc |-> <<>>]

(***************************************************************************)
(* parse.rs: the grammar of one item, and the conversions to components.   *)
(***************************************************************************)
MaybeArg_into_option(item) == IF item.paren THEN Some(item.args) ELSE None

Backtrace_into_bool(item) ==
    IF IsNone(MaybeArg_into_option(item)) THEN TRUE
    ELSE Unwrap(MaybeArg_into_option(item))[1].t1 = "true"

Context_into_component(item) ==
    IF IsNone(MaybeArg_into_option(item)) THEN ContextFlag(TRUE)
    ELSE LET arg == Unwrap(MaybeArg_into_option(item))[1]
         IN  CASE arg.form = "bool" -> ContextFlag(arg.t1 = "true")
               [] arg.form = "suffix" /\ arg.t2 = "bool" /\ arg.t1 = "true" ->
                      ContextSuffix(SuffixDefault)
               [] arg.form = "suffix" /\ arg.t2 = "bool" /\ arg.t1 # "true" ->
                      ContextSuffix(SuffixNone)
               [] OTHER -> ContextSuffix(SuffixSome(arg.t1))

SourceArg_component(sa) ==
    IF sa.form = "bool" THEN SourceFlag(sa.t1 = "true") ELSE SourceFrom(sa.t1, sa.t2)

(* only the first argument form kept *)
Source_into_components_first(item) ==
    IF IsNone(MaybeArg_into_option(item)) THEN <<SourceFlag(TRUE)>>
    ELSE [k \in 1..(IF item.args = <<>> THEN 0 ELSE 1) |-> SourceArg_component(item.args[k])]

Source_into_components(item) ==
    IF IsNone(MaybeArg_into_option(item)) THEN <<SourceFlag(TRUE)>>
    ELSE [k \in 1..Len(item.args) |-> SourceArg_component(item.args[k])]

private_visibility == <<>>
pub_visibility == <<ArgTokens("pub")>>
default_crate_root == <<ArgTokens("::snafu")>>

Visibility_into_arbitrary(item) ==
    IF IsNone(MaybeArg_into_option(item)) THEN private_visibility
    ELSE Unwrap(MaybeArg_into_option(item))

Module_into_value(item) ==
    IF IsNone(MaybeArg_into_option(item)) THEN ModuleDefault
    ELSE ModuleCustom(Unwrap(MaybeArg_into_option(item))[1].t1)

Keywords == {"backtrace", "context", "crate_root", "display", "whatever", "source",
             "visibility", "module"}

(* Whether syn parses the item: the keyword by Attribute::parse, the       *)
(* argument list by the keyword's own Parse implementation.                *)
Attribute_parse_ok(item) ==
    CASE item.kw = "backtrace" ->
             ~item.paren \/ (Len(item.args) = 1 /\ item.args[1].form = "bool")
      [] item.kw = "context" ->
             ~item.paren \/ (Len(item.args) = 1 /\ item.args[1].form \in {"bool", "suffix"})
      [] item.kw = "crate_root" ->
             item.paren /\ Len(item.args) = 1 /\ item.args[1].form = "tokens"
      [] item.kw = "display" -> item.paren
      [] item.kw = "whatever" -> ~item.paren
      [] item.kw = "source" ->
             ~item.paren \/ \A k \in 1..Len(item.args) : item.args[k].form \in {"bool", "from"}
      [] item.kw = "visibility" ->
             ~item.paren \/ Len(item.args) = 0
                \/ (Len(item.args) = 1 /\ item.args[1].form = "tokens")
      [] item.kw = "module" ->
             ~item.paren \/ (Len(item.args) = 1 /\ item.args[1].form = "tokens")
      [] OTHER -> FALSE

(* impl From<Attribute> for SnafuAttribute *)
SnafuAttribute_from(item, tokens) ==
    CASE item.kw = "backtrace" ->
             [SnafuAttribute("Backtrace", tokens) EXCEPT !.b = Backtrace_into_bool(item)]
      [] item.kw = "context" ->
             [SnafuAttribute("Context", tokens) EXCEPT !.c = Context_into_component(item)]
      [] item.kw = "crate_root" ->
             [SnafuAttribute("CrateRoot", tokens) EXCEPT !.user_input = item.args]
      [] item.kw = "display" ->
             [SnafuAttribute("Display", tokens) EXCEPT !.user_input = item.args]
      [] item.kw = "whatever" -> SnafuAttribute("Whatever", tokens)
      [] item.kw = "source" ->
             [SnafuAttribute("Source", tokens) EXCEPT !.ss = Source_into_components(item)]
      [] item.kw = "visibility" ->
             [SnafuAttribute("Visibility", tokens)
                EXCEPT !.user_input = Visibility_into_arbitrary(item)]
      [] item.kw = "module" ->
             [SnafuAttribute("Module", tokens) EXCEPT !.m = Module_into_value(item)]

(* The first item of the list that syn rejects, 0 if the list parses. *)
FirstBadItem(items) ==
    IF \A k \in 1..Len(items) : Attribute_parse_ok(items[k]) THEN 0
    ELSE CHOOSE k \in 1..Len(items) :
            /\ ~Attribute_parse_ok(items[k])
            /\ \A j \in 1..(k - 1) : Attribute_parse_ok(items[j])

(* every annotation taken for one of the grammar *)
attributes_from_syn_acc_any_path(attrs, v, f) ==
    LET step[n \in 0..Len(attrs)] ==
          IF n = 0 THEN [ours |-> <<>>, errs |-> <<>>]
          ELSE LET attr == attrs[n]
                   acc == step[n - 1]
               IN  IF attr.path = "snafu"
                   THEN IF FirstBadItem(attr.items) = 0
                        THEN [acc EXCEPT !.ours = @ \o
                                [i \in 1..Len(attr.items) |->
                                   SnafuAttribute_from(attr.items[i], Span(v, f, n, i, "item"))]]
                        ELSE [acc EXCEPT !.errs = Append(@,
                                Diag(Span(v, f, n, FirstBadItem(attr.items), "item"),
                                     <<"syn: the item does not parse">>))]
                   ELSE IF attr.path = "doc"
                   THEN IF IsSome(attr.doc)
                        THEN [acc EXCEPT !.ours = Append(@,
                                [SnafuAttribute("DocComment", Span(v, f, n, 0, "item"))
                                   EXCEPT !.doc = Unwrap(attr.doc)])]
                        ELSE acc
                   ELSE [acc EXCEPT !.errs = Append(@,
                           Diag(Span(v, f, n, 0, "item"),
                                <<"syn: the item does not parse">>))]
    IN  step[Len(attrs)]

(* attributes_from_syn over the annotations of the element at (v, f): the  *)
(* accumulators ours and errs after the first n annotations.               *)
attributes_from_syn_acc(attrs, v, f) ==
    LET step[n \in 0..Len(attrs)] ==
          IF n = 0 THEN [ours |-> <<>>, errs |-> <<>>]
          ELSE LET attr == attrs[n]
                   acc == step[n - 1]
               IN  IF attr.path = "snafu"
                   THEN IF FirstBadItem(attr.items) = 0
                        THEN [acc EXCEPT !.ours = @ \o
                                [i \in 1..Len(attr.items) |->
                                   SnafuAttribute_from(attr.items[i], Span(v, f, n, i, "item"))]]
                        ELSE [acc EXCEPT !.errs = Append(@,
                                Diag(Span(v, f, n, FirstBadItem(attr.items), "item"),
                                     <<"syn: the item does not parse">>))]
                   ELSE IF attr.path = "doc"
                   THEN IF IsSome(attr.doc)
                        THEN [acc EXCEPT !.ours = Append(@,
                                [SnafuAttribute("DocComment", Span(v, f, n, 0, "item"))
                                   EXCEPT !.doc = Unwrap(attr.doc)])]
                        ELSE acc
                   ELSE acc
    IN  step[Len(attrs)]

attributes_from_syn(attrs, v, f) ==
    LET Result(acc) == IF acc.errs = <<>> THEN Ok(acc.ours) ELSE Err(acc.errs)
    IN  Result(attributes_from_syn_acc(attrs, v, f))

(***************************************************************************)
(* lib.rs: Field, SourceField, Transformation, ContextSelectorKind,        *)
(* FieldContainer.                                                         *)
(***************************************************************************)
Field(name, ty, original) == [name |-> name, ty |-> ty, original |-> original]

TransformationNone(ty) == [kind |-> "None", ty |-> ty, expr |-> ""]
TransformationTransform(ty, expr) == [kind |-> "Transform", ty |-> ty, expr |-> expr]

SourceField(name, transformation, backtrace_delegate) ==
    [name |-> name, transformation |-> transformation,
     backtrace_delegate |-> backtrace_delegate]

KindContext(suffix, source_field, user_fields) ==
    [kind |-> "Context", suffix |-> suffix, source_field |-> source_field,
     user_fields |-> user_fields, message_field |-> None]

KindWhatever(source_field, message_field) ==
    [kind |-> "Whatever", suffix |-> SuffixNone, source_field |-> source_field,
     user_fields |-> <<>>, message_field |-> Some(message_field)]

KindNoContext(source_field) ==
    [kind |-> "NoContext", suffix |-> SuffixNone, source_field |-> Some(source_field),
     user_fields |-> <<>>, message_field |-> None]

(* a flag keeping the default suffix *)
Context_into_enabled_flag_default(c) ==
    IF c.tag = "Flag" THEN [enabled |-> c.b, suffix |-> SuffixDefault]
    ELSE [enabled |-> TRUE, suffix |-> c.suffix]

Context_into_enabled(c) ==
    IF c.tag = "Flag" THEN [enabled |-> c.b, suffix |-> SuffixNone]
    ELSE [enabled |-> TRUE, suffix |-> c.suffix]

(***************************************************************************)
(* field_container, first loop: the annotations of the scope itself.       *)
(***************************************************************************)
Whitespace == {" ", "\t", "\n"}

RECURSIVE trim_start(_)
trim_start(line) ==
    IF line # <<>> /\ Head(line) \in Whitespace THEN trim_start(Tail(line)) ELSE line

RECURSIVE trim_end(_)
trim_end(line) ==
    IF line # <<>> /\ line[Len(line)] \in Whitespace
    THEN trim_end(SubSeq(line, 1, Len(line) - 1))
    ELSE line

trim(line) == trim_end(trim_start(line))

(* blank lines skipped instead of ending the summary *)
DocCommentStep_skip_blank(acc, doc_comment_line) ==
    IF trim(doc_comment_line) = <<>> THEN acc
    ELSE [acc EXCEPT !.doc_comment =
            (IF @ # <<>> THEN @ \o <<" ">> ELSE @) \o trim(doc_comment_line)]

DocCommentStep(acc, doc_comment_line) ==
    IF acc.reached_end_of_doc_comment THEN acc
    ELSE IF trim(doc_comment_line) = <<>>
         THEN [acc EXCEPT !.reached_end_of_doc_comment = TRUE]
         ELSE [acc EXCEPT !.doc_comment =
                 (IF @ # <<>> THEN @ \o <<" ">> ELSE @) \o trim(doc_comment_line)]

ScopeAttrInit(errs, outer_error_location) ==
    [modules |-> AtMostOne_new("module", outer_error_location),
     display_formats |-> AtMostOne_new("display", outer_error_location),
     visibilities |-> AtMostOne_new("visibility", outer_error_location),
     contexts |-> AtMostOne_new("context", outer_error_location),
     whatevers |-> AtMostOne_new("whatever", outer_error_location),
     doc_comment |-> <<>>,
     reached_end_of_doc_comment |-> FALSE,
     errors |-> errs]

ScopeAttrStep(acc, attr, outer_error_location) ==
    CASE attr.kind = "Module" ->
             [acc EXCEPT !.modules = AtMostOne_add(@, attr.m, attr.tokens)]
      [] attr.kind = "Display" ->
             [acc EXCEPT !.display_formats = AtMostOne_add(@, attr.user_input, attr.tokens)]
      [] attr.kind = "Visibility" ->
             [acc EXCEPT !.visibilities = AtMostOne_add(@, attr.user_input, attr.tokens)]
      [] attr.kind = "Context" ->
             [acc EXCEPT !.contexts = AtMostOne_add(@, attr.c, attr.tokens)]
      [] attr.kind = "Whatever" ->
             [acc EXCEPT !.whatevers = AtMostOne_add(@, "unit", attr.tokens)]
      [] attr.kind = "Source" ->
             [acc EXCEPT !.errors =
                SyntaxErrors_add(@, attr.tokens, ATTR_SOURCE(outer_error_location))]
      [] attr.kind = "Backtrace" ->
             [acc EXCEPT !.errors =
                SyntaxErrors_add(@, attr.tokens, ATTR_BACKTRACE(outer_error_location))]
      [] attr.kind = "CrateRoot" ->
             [acc EXCEPT !.errors =
                SyntaxErrors_add(@, attr.tokens, ATTR_CRATE_ROOT(outer_error_location))]
      [] attr.kind = "DocComment" -> DocCommentStep(acc, attr.doc)

ScopeAttrLoop(attrs, errs, outer_error_location) ==
    LET step[n \in 0..Len(attrs)] ==
          IF n = 0 THEN ScopeAttrInit(errs, outer_error_location)
          ELSE ScopeAttrStep(step[n - 1], attrs[n], outer_error_location)
    IN  step[Len(attrs)]

(***************************************************************************)
(* field_container, second loop: the annotations of one field.             *)
(***************************************************************************)
seen_source_from(source_attrs) ==
    \E k \in 1..Len(source_attrs.values) : IsSome(source_attrs.values[k].item)

(* the opt-out accepted on a field of any name *)
SourceOptOutName_any(name) == TRUE

SourceOptOutName(name) == name = "source"

BacktraceOptOutName_any(name) == TRUE

BacktraceOptOutName(name) == name = "backtrace"

SourceFlagStep(acc, v, tokens, name) ==
    LET checked == IF ~v /\ seen_source_from(acc.source_attrs)
                   THEN [acc EXCEPT !.errors =
                           SyntaxErrors_add(@, tokens, SOURCE_BOOL_FROM_INCOMPATIBLE("OnField"))]
                   ELSE acc
    IN  IF v
        THEN [checked EXCEPT !.source_attrs = AtMostOne_add(@, None, tokens)]
        ELSE IF SourceOptOutName(name)
        THEN [checked EXCEPT !.source_opt_out = TRUE]
        ELSE [checked EXCEPT !.errors =
                SyntaxErrors_add(@, tokens, ATTR_SOURCE_FALSE("OnField"))]

SourceFromStep(acc, ty, expr, tokens) ==
    LET checked == IF acc.source_opt_out
                   THEN [acc EXCEPT !.errors =
                           SyntaxErrors_add(@, tokens, SOURCE_BOOL_FROM_INCOMPATIBLE("OnField"))]
                   ELSE acc
    IN  [checked EXCEPT !.source_attrs =
           AtMostOne_add(@, Some([ty |-> ty, expr |-> expr]), tokens)]

SourceComponentsLoop(acc, ss, tokens, name) ==
    LET step[n \in 0..Len(ss)] ==
          IF n = 0 THEN acc
          ELSE IF ss[n].tag = "Flag"
               THEN SourceFlagStep(step[n - 1], ss[n].v, tokens, name)
               ELSE SourceFromStep(step[n - 1], ss[n].ty, ss[n].expr, tokens)
    IN  step[Len(ss)]

(* a positive backtrace ignored once an opt-out was seen *)
BacktraceStep_after_opt_out(acc, v, tokens, name) ==
    IF v
    THEN IF acc.backtrace_opt_out THEN acc
         ELSE [acc EXCEPT !.backtrace_attrs = AtMostOne_add(@, "unit", tokens)]
    ELSE IF BacktraceOptOutName(name)
    THEN [acc EXCEPT !.backtrace_opt_out = TRUE]
    ELSE [acc EXCEPT !.errors =
            SyntaxErrors_add(@, tokens, ATTR_BACKTRACE_FALSE("OnField"))]

BacktraceStep(acc, v, tokens, name) ==
    IF v
    THEN [acc EXCEPT !.backtrace_attrs = AtMostOne_add(@, "unit", tokens)]
    ELSE IF BacktraceOptOutName(name)
    THEN [acc EXCEPT !.backtrace_opt_out = TRUE]
    ELSE [acc EXCEPT !.errors =
            SyntaxErrors_add(@, tokens, ATTR_BACKTRACE_FALSE("OnField"))]

FieldAttrInit(errs) ==
    [source_attrs |-> AtMostOne_new("source", "OnField"),
     backtrace_attrs |-> AtMostOne_new("backtrace", "OnField"),
     source_opt_out |-> FALSE,
     backtrace_opt_out |-> FALSE,
     errors |-> errs]

FieldAttrStep(acc, attr, name) ==
    CASE attr.kind = "Source" -> SourceComponentsLoop(acc, attr.ss, attr.tokens, name)
      [] attr.kind = "Backtrace" -> BacktraceStep(acc, attr.b, attr.tokens, name)
      [] attr.kind = "Module" ->
             [acc EXCEPT !.errors = SyntaxErrors_add(@, attr.tokens, ATTR_MODULE("OnField"))]
      [] attr.kind = "Visibility" ->
             [acc EXCEPT !.errors = SyntaxErrors_add(@, attr.tokens, ATTR_VISIBILITY("OnField"))]
      [] attr.kind = "Display" ->
             [acc EXCEPT !.errors = SyntaxErrors_add(@, attr.tokens, ATTR_DISPLAY("OnField"))]
      [] attr.kind = "Context" ->
             [acc EXCEPT !.errors = SyntaxErrors_add(@, attr.tokens, ATTR_CONTEXT("OnField"))]
      [] attr.kind = "Whatever" ->
             [acc EXCEPT !.errors = SyntaxErrors_add(@, attr.tokens, ATTR_WHATEVER("OnField"))]
      [] attr.kind = "CrateRoot" ->
             [acc EXCEPT !.errors = SyntaxErrors_add(@, attr.tokens, ATTR_CRATE_ROOT("OnField"))]
      [] attr.kind = "DocComment" -> acc

FieldAttrLoop(attrs, errs, name) ==
    LET step[n \in 0..Len(attrs)] ==
          IF n = 0 THEN FieldAttrInit(errs)
          ELSE FieldAttrStep(step[n - 1], attrs[n], name)
    IN  step[Len(attrs)]

(***************************************************************************)
(* field_container: the role of one field, from its ledgers and its name.  *)
(***************************************************************************)
(* source_attr.or_else(..): the first source occurrence, else the default  *)
(* that the name "source" implies.                                         *)
(* no field is causal by its name *)
SourceAttrOrDefault_explicit_only(source_attr, name, source_opt_out, field_tokens) ==
    source_attr

SourceAttrOrDefault(source_attr, name, source_opt_out, field_tokens) ==
    IF IsSome(source_attr) THEN source_attr
    ELSE IF name = "source" /\ ~source_opt_out
    THEN Some([item |-> None, tokens |-> field_tokens])
    ELSE None

BacktraceAttrOrDefault(backtrace_attr, name, backtrace_opt_out, field_tokens) ==
    IF IsSome(backtrace_attr) THEN backtrace_attr
    ELSE IF name = "backtrace" /\ ~backtrace_opt_out
    THEN Some([item |-> "unit", tokens |-> field_tokens])
    ELSE None

SourceTransformation(maybe_transformation, ty) ==
    IF IsSome(maybe_transformation)
    THEN TransformationTransform(Unwrap(maybe_transformation).ty,
                                 Unwrap(maybe_transformation).expr)
    ELSE TransformationNone(ty)

(* a second causal or trace field kept as a user field *)
ClassifyField_extra_as_user(acc, field, source_attr, backtrace_attr) ==
    IF IsSome(source_attr) /\ acc.source_fields.values = <<>>
    THEN [acc EXCEPT !.source_fields =
            AtMostOne_add(@,
                SourceField(field.name,
                            SourceTransformation(Unwrap(source_attr).item, field.ty),
                            IsSome(backtrace_attr)),
                Unwrap(source_attr).tokens)]
    ELSE IF IsNone(source_attr) /\ IsSome(backtrace_attr)
            /\ acc.backtrace_fields.values = <<>>
    THEN [acc EXCEPT !.backtrace_fields =
            AtMostOne_add(@, field, Unwrap(backtrace_attr).tokens)]
    ELSE [acc EXCEPT !.user_fields = Append(@, field)]

(* trace taking precedence over causal *)
ClassifyField_trace_first(acc, field, source_attr, backtrace_attr) ==
    IF IsSome(backtrace_attr)
    THEN [acc EXCEPT !.backtrace_fields =
            AtMostOne_add(@, field, Unwrap(backtrace_attr).tokens)]
    ELSE IF IsSome(source_attr)
    THEN [acc EXCEPT !.source_fields =
            AtMostOne_add(@,
                SourceField(field.name,
                            SourceTransformation(Unwrap(source_attr).item, field.ty),
                            FALSE),
                Unwrap(source_attr).tokens)]
    ELSE [acc EXCEPT !.user_fields = Append(@, field)]

(* acc holds user_fields, source_fields, backtrace_fields. *)
ClassifyField(acc, field, source_attr, backtrace_attr) ==
    IF IsSome(source_attr)
    THEN [acc EXCEPT !.source_fields =
            AtMostOne_add(@,
                SourceField(field.name,
                            SourceTransformation(Unwrap(source_attr).item, field.ty),
                            IsSome(backtrace_attr)),
                Unwrap(source_attr).tokens)]
    ELSE IF IsSome(backtrace_attr)
    THEN [acc EXCEPT !.backtrace_fields =
            AtMostOne_add(@, field, Unwrap(backtrace_attr).tokens)]
    ELSE [acc EXCEPT !.user_fields = Append(@, field)]

FieldLoopInit(errs, inner_error_location) ==
    [user_fields |-> <<>>,
     source_fields |-> AtMostOne_new("source", inner_error_location),
     backtrace_fields |-> AtMostOne_new("backtrace", inner_error_location),
     errors |-> errs,
     early |-> None]

(* One iteration of `for syn_field in fields`; early is Some(errs) once a  *)
(* `?` has returned from field_container.                                  *)
FieldStep(acc, syn_field, v, f) ==
    LET Roles(field, fa, source_fin, backtrace_fin) ==
            ClassifyField(
                [acc EXCEPT !.errors =
                    SyntaxErrors_extend(SyntaxErrors_extend(fa.errors, source_fin.errors),
                                        backtrace_fin.errors)],
                field,
                SourceAttrOrDefault(source_fin.value, field.name, fa.source_opt_out,
                                    field.original),
                BacktraceAttrOrDefault(backtrace_fin.value, field.name,
                                       fa.backtrace_opt_out, field.original))
        Finish(field, fa) ==
            Roles(field, fa, AtMostOne_finish_with_location(fa.source_attrs),
                  AtMostOne_finish_with_location(fa.backtrace_attrs))
        Parsed(field, parsed) ==
            IF ~parsed.ok THEN [acc EXCEPT !.early = Some(parsed.err)]
            ELSE Finish(field, FieldAttrLoop(Unwrap(parsed.val), acc.errors, field.name))
    IN  IF IsSome(acc.early) THEN acc
        ELSE IF IsNone(syn_field.ident)
        THEN [acc EXCEPT !.early =
                Some(<<Diag(Span(v, f, 0, 0, "field"), <<"Must have a named field">>)>>)]
        ELSE Parsed(Field(Unwrap(syn_field.ident), syn_field.ty, Span(v, f, 0, 0, "field")),
                    attributes_from_syn(syn_field.attrs, v, f))

FieldLoop(fields, errs, v, inner_error_location) ==
    LET step[n \in 0..Len(fields)] ==
          IF n = 0 THEN FieldLoopInit(errs, inner_error_location)
          ELSE FieldStep(step[n - 1], fields[n], v, n)
    IN  step[Len(fields)]

(***************************************************************************)
(* field_container: the checks after the loops, and the selector kind.     *)
(***************************************************************************)
BACKTRACE_CONFLICT ==
    <<"Cannot have 'backtrace' field and 'backtrace' attribute on a source field in the same variant">>

(* source and backtrace are the Option<(value, tokens)> of the two ledgers *)
BacktraceDelegateConflict_never(source, backtrace) == FALSE

BacktraceDelegateConflict(source, backtrace) ==
    IsSome(source) /\ IsSome(backtrace) /\ Unwrap(source).item.backtrace_delegate

BacktraceConflictCheck(errs, source, backtrace) ==
    IF BacktraceDelegateConflict(source, backtrace)
    THEN SyntaxErrors_add(
             SyntaxErrors_add(errs, Unwrap(source).tokens, BACKTRACE_CONFLICT),
             Unwrap(backtrace).tokens, BACKTRACE_CONFLICT)
    ELSE errs

CONTEXT_AND_WHATEVER == <<"Cannot be both a 'context' and 'whatever' error">>

(* Each arm yields the result and the value of errors it leaves. *)
(* the conflict reported at the whatever attribute only *)
KindBothArm_one_error(errs, c_tt, o_tt) ==
    [res |-> Err(<<Diag(o_tt, CONTEXT_AND_WHATEVER)>>), errors |-> errs]

KindBothArm(errs, c_tt, o_tt) ==
    [res |-> Err(<<Diag(c_tt, CONTEXT_AND_WHATEVER), Diag(o_tt, CONTEXT_AND_WHATEVER)>>),
     errors |-> errs]

KindContextArm(errs, suffix, source_field, user_fields) ==
    [res |-> Ok(KindContext(suffix, source_field, user_fields)), errors |-> errs]

(* the row "absent / absent" resolved as if the context flag had been given *)
KindDefaultArm_no_suffix(errs, source_field, user_fields) ==
    [res |-> Ok(KindContext(SuffixNone, source_field, user_fields)), errors |-> errs]

KindDefaultArm(errs, source_field, user_fields) ==
    [res |-> Ok(KindContext(SuffixDefault, source_field, user_fields)), errors |-> errs]

(* any user field taken for the message field *)
IsMessageField_any(f) == TRUE

IsMessageField(f) == f.name = "message"

WhateverFieldsLoop(user_fields, errs, outer_error_location) ==
    LET step[n \in 0..Len(user_fields)] ==
          IF n = 0 THEN [messages |-> AtMostOne_new("message", outer_error_location),
                         errors |-> errs]
          ELSE IF IsMessageField(user_fields[n])
               THEN [step[n - 1] EXCEPT !.messages =
                       AtMostOne_add(@, user_fields[n], user_fields[n].original)]
               ELSE [step[n - 1] EXCEPT !.errors =
                       SyntaxErrors_add(@, user_fields[n].original,
                           <<"Whatever selectors must not have context fields">>)]
    IN  step[Len(user_fields)]

KindWhateverArm(errs, source_field, user_fields, variant_span, outer_error_location) ==
    LET Message(errs2, message_field) ==
            IF IsNone(message_field)
            THEN [res |-> Err(<<Diag(variant_span,
                                     <<"Whatever selectors must have a message field">>)>>),
                  errors |-> errs2]
            ELSE [res |-> Ok(KindWhatever(source_field, Unwrap(message_field))),
                  errors |-> errs2]
        Finish(loop_errors, fin) ==
            Message(SyntaxErrors_extend(loop_errors, fin.errors), fin.value)
        Loop(loop) == Finish(loop.errors, AtMostOne_finish(loop.messages))
    IN  Loop(WhateverFieldsLoop(user_fields, errs, outer_error_location))

NoContextFieldErrors(user_fields) ==
    [n \in 1..Len(user_fields) |->
       Diag(user_fields[n].original,
            <<"Context selectors without context must not have context fields">>)]

(* the user fields of a scope without context let through *)
KindNoContextArm_lenient(errs, source_field, user_fields, variant_span) ==
    IF IsNone(source_field)
    THEN [res |-> Err(<<Diag(variant_span,
               <<"Context selectors without context must have a source field">>)>>),
          errors |-> errs]
    ELSE [res |-> Ok(KindNoContext(Unwrap(source_field))), errors |-> errs]

KindNoContextArm(errs, source_field, user_fields, variant_span) ==
    LET errs2 == SyntaxErrors_extend(errs, NoContextFieldErrors(user_fields))
    IN  IF IsNone(source_field)
        THEN [res |-> Err(<<Diag(variant_span,
                   <<"Context selectors without context must have a source field">>)>>),
              errors |-> errs2]
        ELSE [res |-> Ok(KindNoContext(Unwrap(source_field))), errors |-> errs2]

(* match (is_context, is_whatever): is_context is Option<((bool, suffix),  *)
(* tokens)>, is_whatever Option<((), tokens)>.                             *)
SelectorKindMatch(errs, is_context, is_whatever, source_field, user_fields, variant_span, outer_error_location) ==
    CASE IsSome(is_context) /\ Unwrap(is_context).item.enabled /\ IsSome(is_whatever) ->
             KindBothArm(errs, Unwrap(is_context).tokens, Unwrap(is_whatever).tokens)
      [] IsSome(is_context) /\ Unwrap(is_context).item.enabled /\ IsNone(is_whatever) ->
             KindContextArm(errs, Unwrap(is_context).item.suffix, source_field, user_fields)
      [] IsNone(is_context) /\ IsNone(is_whatever) ->
             KindDefaultArm(errs, source_field, user_fields)
      [] (IsSome(is_context) /\ ~Unwrap(is_context).item.enabled /\ IsSome(is_whatever))
           \/ (IsNone(is_context) /\ IsSome(is_whatever)) ->
             KindWhateverArm(errs, source_field, user_fields, variant_span,
                             outer_error_location)
      [] IsSome(is_context) /\ ~Unwrap(is_context).item.enabled /\ IsNone(is_whatever) ->
             KindNoContextArm(errs, source_field, user_fields, variant_span)

FieldContainer(name, backtrace_field, selector_kind, display_format, doc_comment, visibility, module) ==
    [name |-> name, backtrace_field |-> backtrace_field, selector_kind |-> selector_kind,
     display_format |-> display_format, doc_comment |-> doc_comment,
     visibility |-> visibility, module |-> module]

MapEnabled(is_context) ==
    IF IsSome(is_context)
    THEN Some([item |-> Context_into_enabled(Unwrap(is_context).item),
               tokens |-> Unwrap(is_context).tokens])
    ELSE None

MapItem(o) == IF IsSome(o) THEN Some(Unwrap(o).item) ELSE None

(* field_container(name, variant_span, attrs, fields, errors, outer, inner) *)
(* for the scope at variant index v: [res, errors], errors being the value  *)
(* the caller's SyntaxErrors is left with.                                  *)
field_container(name, variant_span, attrs, fields, errs, v, outer_error_location, inner_error_location) ==
    LET Build(sa, backtrace, module, display_format, visibility, sk) ==
            IF ~sk.res.ok THEN sk
            ELSE [res |-> Ok(FieldContainer(name, MapItem(backtrace.value),
                                            Unwrap(sk.res.val), display_format.value,
                                            sa.doc_comment, visibility.value, module.value)),
                  errors |-> sk.errors]
        Finish(sa, fl, source, backtrace, module, display_format, visibility, contexts,
               is_whatever) ==
            LET e1 == SyntaxErrors_extend(fl.errors, source.errors)
                e2 == SyntaxErrors_extend(e1, backtrace.errors)
                e3 == BacktraceConflictCheck(e2, source.value, backtrace.value)
                e4 == SyntaxErrors_extend(e3, module.errors)
                e5 == SyntaxErrors_extend(e4, display_format.errors)
                e6 == SyntaxErrors_extend(e5, visibility.errors)
                e7 == SyntaxErrors_extend(e6, contexts.errors)
                e8 == SyntaxErrors_extend(e7, is_whatever.errors)
            IN  Build(sa, backtrace, module, display_format, visibility,
                      SelectorKindMatch(e8, MapEnabled(contexts.value), is_whatever.value,
                                        MapItem(source.value), fl.user_fields, variant_span,
                                        outer_error_location))
        Fields(sa, fl) ==
            IF IsSome(fl.early) THEN [res |-> Err(Unwrap(fl.early)), errors |-> fl.errors]
            ELSE Finish(sa, fl,
                        AtMostOne_finish_with_location(fl.source_fields),
                        AtMostOne_finish_with_location(fl.backtrace_fields),
                        AtMostOne_finish(sa.modules),
                        AtMostOne_finish(sa.display_formats),
                        AtMostOne_finish(sa.visibilities),
                        AtMostOne_finish_with_location(sa.contexts),
                        AtMostOne_finish_with_location(sa.whatevers))
        Scope(sa) == Fields(sa, FieldLoop(fields, sa.errors, v, inner_error_location))
    IN  Scope(ScopeAttrLoop(attrs, errs, outer_error_location))

(***************************************************************************)
(* parse_snafu_enum: the annotations of the enum itself.                   *)
(***************************************************************************)
EnumAttrInit ==
    [modules |-> AtMostOne_new("module", "OnEnum"),
     default_visibilities |-> AtMostOne_new("visibility", "OnEnum"),
     crate_roots |-> AtMostOne_new("crate_root", "OnEnum"),
     errors |-> <<>>]

EnumSourceErrors(errs, ss, tokens) ==
    errs \o [k \in 1..Len(ss) |->
               Diag(tokens, IF ss[k].tag = "Flag" THEN ATTR_SOURCE_BOOL("OnEnum")
                            ELSE ATTR_SOURCE_FROM("OnEnum"))]

EnumAttrStep(acc, attr) ==
    CASE attr.kind = "Visibility" ->
             [acc EXCEPT !.default_visibilities = AtMostOne_add(@, attr.user_input, attr.tokens)]
      [] attr.kind = "Display" ->
             [acc EXCEPT !.errors = SyntaxErrors_add(@, attr.tokens, ATTR_DISPLAY("OnEnum"))]
      [] attr.kind = "Source" ->
             [acc EXCEPT !.errors = EnumSourceErrors(@, attr.ss, attr.tokens)]
      [] attr.kind = "CrateRoot" ->
             [acc EXCEPT !.crate_roots = AtMostOne_add(@, attr.user_input, attr.tokens)]
      [] attr.kind = "Module" ->
             [acc EXCEPT !.modules = AtMostOne_add(@, attr.m, attr.tokens)]
      [] attr.kind = "Backtrace" ->
             [acc EXCEPT !.errors = SyntaxErrors_add(@, attr.tokens, ATTR_BACKTRACE("OnEnum"))]
      [] attr.kind = "Context" ->
             [acc EXCEPT !.errors = SyntaxErrors_add(@, attr.tokens, ATTR_CONTEXT("OnEnum"))]
      [] attr.kind = "Whatever" ->
             [acc EXCEPT !.errors = SyntaxErrors_add(@, attr.tokens, ATTR_WHATEVER("OnEnum"))]
      [] attr.kind = "DocComment" -> acc

EnumAttrLoop(attrs) ==
    LET step[n \in 0..Len(attrs)] ==
          IF n = 0 THEN EnumAttrInit ELSE EnumAttrStep(step[n - 1], attrs[n])
    IN  step[Len(attrs)]

default_default_visibility_private(module) == private_visibility

default_default_visibility(module) ==
    IF IsSome(module) THEN pub_visibility ELSE private_visibility

unwrap_or_else(o, default) == IF IsSome(o) THEN Unwrap(o) ELSE default

(* The part of parse_snafu_enum between the attribute loop and the map     *)
(* over the variants: what it resolves and the errors it has so far.       *)
EnumResolved(attrs) ==
    LET acc == EnumAttrLoop(attrs)
        module == AtMostOne_finish(acc.modules)
        e1 == SyntaxErrors_extend(acc.errors, module.errors)
        vis == AtMostOne_finish(acc.default_visibilities)
        e2 == SyntaxErrors_extend(e1, vis.errors)
        root == AtMostOne_finish(acc.crate_roots)
        e3 == SyntaxErrors_extend(e2, root.errors)
    IN  [module |-> module.value,
         default_visibility |->
             unwrap_or_else(vis.value, default_default_visibility(module.value)),
         crate_root |-> unwrap_or_else(root.value, default_crate_root),
         errors |-> e3]

NoEnumInfo ==
    [module |-> None, default_visibility |-> private_visibility,
     crate_root |-> default_crate_root]

(* The closure mapped over the variants, for variant number v. *)
(* the closure with the attributes of the variant parsed before its shape *)
(* is looked at                                                           *)
VariantClosure_attributes_first(variant, v, errs) ==
    IF ~attributes_from_syn(variant.attrs, v, 0).ok
    THEN [res |-> Err(attributes_from_syn(variant.attrs, v, 0).err), errors |-> errs]
    ELSE IF variant.fields_kind = "Unnamed"
    THEN [res |-> Err(<<Diag(Span(v, 0, 0, 0, "fields"),
                            <<"Only struct-like and unit enum variants are supported">>)>>),
          errors |-> errs]
    ELSE field_container(variant.ident, Span(v, 0, 0, 0, "ident"),
                         Unwrap(attributes_from_syn(variant.attrs, v, 0).val),
                         IF variant.fields_kind = "Named" THEN variant.fields ELSE <<>>,
                         errs, v, "OnVariant", "InVariant")

VariantClosure(variant, v, errs) ==
    LET Parsed(attrs) ==
            IF ~attrs.ok THEN [res |-> Err(attrs.err), errors |-> errs]
            ELSE field_container(variant.ident, Span(v, 0, 0, 0, "ident"), Unwrap(attrs.val),
                                 IF variant.fields_kind = "Named" THEN variant.fields
                                 ELSE <<>>,
                                 errs, v, "OnVariant", "InVariant")
    IN  IF variant.fields_kind = "Unnamed"
        THEN [res |-> Err(<<Diag(Span(v, 0, 0, 0, "fields"),
                                <<"Only struct-like and unit enum variants are supported">>)>>),
              errors |-> errs]
        ELSE Parsed(attributes_from_syn(variant.attrs, v, 0))

(***************************************************************************)
(* sponge::AllErrors: from_iter consumes one Result at a time.             *)
(***************************************************************************)
(* from_iter as the standard collect into a Result would be: it keeps the  *)
(* first error only.                                                       *)
AllErrors_step_first_error(acc, res) ==
    IF res.ok THEN [acc EXCEPT !.inner = Append(@, Unwrap(res.val))]
    ELSE IF acc.errors = <<>> THEN [acc EXCEPT !.errors = res.err]
    ELSE acc

AllErrors_step(acc, res) ==
    IF res.ok THEN [acc EXCEPT !.inner = Append(@, Unwrap(res.val))]
    ELSE [acc EXCEPT !.errors = @ \o res.err]

AllErrors_into_result(acc) ==
    IF acc.errors = <<>> THEN Ok(acc.inner) ELSE Err(acc.errors)

EnumInfo(crate_root, name, variants, default_visibility, module) ==
    [shape |-> "Enum", crate_root |-> crate_root, name |-> name, variants |-> variants,
     default_visibility |-> default_visibility, module |-> module]

NamedStructInfo(crate_root, fc) ==
    [shape |-> "NamedStruct", crate_root |-> crate_root, the_field_container |-> fc]

TupleStructInfo(crate_root, name, transformation) ==
    [shape |-> "TupleStruct", crate_root |-> crate_root, name |-> name,
     transformation |-> transformation]

(***************************************************************************)
(* generate_snafu: the visibility handed to the context selector of one    *)
(* field container.  Some(tokens) is written out as the modifier of the    *)
(* selector, None leaves the selector without a modifier.                  *)
(***************************************************************************)
(* impl ToTokens for ContextSelector, the selector of one enum variant *)
(* a variant that names a module opening its selector *)
ContextSelector_visibility_variant_module(info, variant) ==
    IF IsNone(variant.visibility) /\ IsSome(variant.module) THEN Some(pub_visibility)
    ELSE Some(unwrap_or_else(variant.visibility, info.default_visibility))

ContextSelector_visibility(info, variant) ==
    Some(unwrap_or_else(variant.visibility, info.default_visibility))

(* NamedStructInfo::generate_snafu *)
selector_visibility(visibility, module) ==
    IF IsSome(visibility) THEN Some(Unwrap(visibility))
    ELSE IF IsSome(module) THEN Some(pub_visibility)
    ELSE None

(***************************************************************************)
(* parse_snafu_named_struct                                                *)
(***************************************************************************)
StructCrateRoots(attrs) ==
    LET step[n \in 0..Len(attrs)] ==
          IF n = 0 THEN [crate_roots |-> AtMostOne_new("crate_root", "OnNamedStruct"),
                         rest |-> <<>>]
          ELSE IF attrs[n].kind = "CrateRoot"
               THEN [step[n - 1] EXCEPT !.crate_roots =
                       AtMostOne_add(@, attrs[n].user_input, attrs[n].tokens)]
               ELSE [step[n - 1] EXCEPT !.rest = Append(@, attrs[n])]
    IN  step[Len(attrs)]

(* The call of field_container, for a struct whose annotations parse. *)
NamedStructContainer(fields, name, attrs, span) ==
    field_container(name, span,
                    StructCrateRoots(Unwrap(attributes_from_syn(attrs, 0, 0).val)).rest,
                    fields, <<>>, 0, "OnNamedStruct", "InNamedStruct")

(* What follows the call: the `?` on its result, crate_roots.finish() and  *)
(* errors.finish()?.  fc is [res, errors] as field_container left them.    *)
NamedStructFinish(fc, attrs) ==
    LET Finish(root) ==
            IF ~fc.res.ok THEN Err(fc.res.err)
            ELSE IF ~SyntaxErrors_finish(SyntaxErrors_extend(fc.errors, root.errors)).ok
            THEN Err(SyntaxErrors_extend(fc.errors, root.errors))
            ELSE Ok(NamedStructInfo(unwrap_or_else(root.value, default_crate_root),
                                    Unwrap(fc.res.val)))
    IN  Finish(AtMostOne_finish(
                   StructCrateRoots(Unwrap(attributes_from_syn(attrs, 0, 0).val)).crate_roots))

(***************************************************************************)
(* parse_snafu_tuple_struct                                                *)
(***************************************************************************)
TupleAttrInit ==
    [transformations |-> AtMostOne_new("source(from)", "OnTupleStruct"),
     crate_roots |-> AtMostOne_new("crate_root", "OnTupleStruct"),
     errors |-> <<>>]

TupleSourceLoop(acc, ss, tokens) ==
    LET step[n \in 0..Len(ss)] ==
          IF n = 0 THEN acc
          ELSE IF ss[n].tag = "Flag"
               THEN [step[n - 1] EXCEPT !.errors =
                       SyntaxErrors_add(@, tokens, ATTR_SOURCE_BOOL("OnTupleStruct"))]
               ELSE [step[n - 1] EXCEPT !.transformations =
                       AtMostOne_add(@, [ty |-> ss[n].ty, expr |-> ss[n].expr], tokens)]
    IN  step[Len(ss)]

TupleAttrStep(acc, attr) ==
    CASE attr.kind = "Module" ->
             [acc EXCEPT !.errors = SyntaxErrors_add(@, attr.tokens, ATTR_MODULE("OnTupleStruct"))]
      [] attr.kind = "Display" ->
             [acc EXCEPT !.errors = SyntaxErrors_add(@, attr.tokens, ATTR_DISPLAY("OnTupleStruct"))]
      [] attr.kind = "Visibility" ->
             [acc EXCEPT !.errors =
                SyntaxErrors_add(@, attr.tokens, ATTR_VISIBILITY("OnTupleStruct"))]
      [] attr.kind = "Source" -> TupleSourceLoop(acc, attr.ss, attr.tokens)
      [] attr.kind = "Backtrace" ->
             [acc EXCEPT !.errors =
                SyntaxErrors_add(@, attr.tokens, ATTR_BACKTRACE("OnTupleStruct"))]
      [] attr.kind = "Context" ->
             [acc EXCEPT !.errors = SyntaxErrors_add(@, attr.tokens, ATTR_CONTEXT("OnTupleStruct"))]
      [] attr.kind = "Whatever" ->
             [acc EXCEPT !.errors = SyntaxErrors_add(@, attr.tokens, ATTR_CONTEXT("OnTupleStruct"))]
      [] attr.kind = "CrateRoot" ->
             [acc EXCEPT !.crate_roots = AtMostOne_add(@, attr.user_input, attr.tokens)]
      [] attr.kind = "DocComment" -> acc

TupleAttrLoop(attrs) ==
    LET step[n \in 0..Len(attrs)] ==
          IF n = 0 THEN TupleAttrInit ELSE TupleAttrStep(step[n - 1], attrs[n])
    IN  step[Len(attrs)]

one_field_error(span) ==
    Diag(span, <<"Can only derive 'Snafu' for tuple structs with exactly one field">>)

parse_snafu_tuple_struct_pop_only(fields, name, attrs, span) ==
    LET Finish(acc_errors, tr, root) ==
            LET e1 == SyntaxErrors_extend(acc_errors, tr.errors)
                e2 == SyntaxErrors_extend(e1, root.errors)
            IN  IF ~SyntaxErrors_finish(e2).ok THEN Err(e2)
                ELSE Ok(TupleStructInfo(unwrap_or_else(root.value, default_crate_root), name,
                                        SourceTransformation(tr.value,
                                                             fields[Len(fields)].ty)))
        Loop(acc) ==
            IF Len(fields) = 0 THEN Err(<<one_field_error(span)>>)
            ELSE Finish(acc.errors, AtMostOne_finish(acc.transformations),
                        AtMostOne_finish(acc.crate_roots))
        Parsed(parsed) ==
            IF ~parsed.ok THEN Err(parsed.err) ELSE Loop(TupleAttrLoop(Unwrap(parsed.val)))
    IN  Parsed(attributes_from_syn(attrs, 0, 0))

parse_snafu_tuple_struct(fields, name, attrs, span) ==
    LET Finish(acc_errors, tr, root) ==
            LET e1 == SyntaxErrors_extend(acc_errors, tr.errors)
                e2 == SyntaxErrors_extend(e1, root.errors)
            IN  IF ~SyntaxErrors_finish(e2).ok THEN Err(e2)
                ELSE Ok(TupleStructInfo(unwrap_or_else(root.value, default_crate_root), name,
                                        SourceTransformation(tr.value,
                                                             fields[Len(fields)].ty)))
        Loop(acc) ==
            IF Len(fields) # 1 THEN Err(<<one_field_error(span)>>)
            ELSE Finish(acc.errors, AtMostOne_finish(acc.transformations),
                        AtMostOne_finish(acc.crate_roots))
        Parsed(parsed) ==
            IF ~parsed.ok THEN Err(parsed.err) ELSE Loop(TupleAttrLoop(Unwrap(parsed.val)))
    IN  Parsed(attributes_from_syn(attrs, 0, 0))


to_compile_errors(errs) == [k \in 1..Len(errs) |-> [compile_error |-> errs[k]]]

NoOutput == [artifact |-> None, compile_errors |-> <<>>, selectors |-> <<>>]

(***************************************************************************)
(* The derive as a state machine.  pc is the position in impl_snafu_macro: *)
(*   start -> (variants | struct) -> parsed -> done                        *)
(* mapped holds the Results that the calls of field_container (one per     *)
(* variant, or the one of a named struct) have returned so far.            *)
(***************************************************************************)
InitOf(ty) ==
    /\ input = ty
    /\ pc = "start"
    /\ errors = <<>>
    /\ enum_info = NoEnumInfo
    /\ vi = 1
    /\ sponge = [inner |-> <<>>, errors |-> <<>>]
    /\ mapped = <<>>
    /\ result = None
    /\ output = NoOutput
    /\ ledger = AtMostOne_new("visibility", "OnEnum")
    /\ calls = <<>>
    /\ finished = None

ledger_vars == <<ledger, calls, finished>>

(* a unit struct turned away like a union *)
ParseUnsupported_unit_struct ==
    /\ pc = "start"
    /\ input.data \notin {"Enum", "Struct"} \/ input.fields_kind = "Unit"
    /\ result' = Some(Err(<<Diag(Span(0, 0, 0, 0, "type"),
                                <<"Can only derive 'Snafu' for an enum or a newtype">>)>>))
    /\ pc' = "parsed"
    /\ UNCHANGED <<input, errors, enum_info, vi, sponge, mapped, output, ledger_vars>>

(* parse_snafu_information, anything that is neither an enum nor a struct *)
ParseUnsupported ==
    /\ pc = "start"
    /\ input.data \notin {"Enum", "Struct"}
    /\ result' = Some(Err(<<Diag(Span(0, 0, 0, 0, "type"),
                                <<"Can only derive 'Snafu' for an enum or a newtype">>)>>))
    /\ pc' = "parsed"
    /\ UNCHANGED <<input, errors, enum_info, vi, sponge, mapped, output, ledger_vars>>

(* parse_snafu_enum up to the map over the variants *)
ParseEnumAttrs ==
    /\ pc = "start"
    /\ input.data = "Enum"
    /\ IF ~attributes_from_syn(input.attrs, 0, 0).ok
       THEN /\ result' = Some(Err(attributes_from_syn(input.attrs, 0, 0).err))
            /\ pc' = "parsed"
            /\ UNCHANGED <<errors, enum_info>>
       ELSE LET r == EnumResolved(Unwrap(attributes_from_syn(input.attrs, 0, 0).val))
            IN  /\ enum_info' = [module |-> r.module,
                                 default_visibility |-> r.default_visibility,
                                 crate_root |-> r.crate_root]
                /\ errors' = r.errors
                /\ pc' = "variants"
                /\ UNCHANGED result
    /\ UNCHANGED <<input, vi, sponge, mapped, output, ledger_vars>>

(* one variant through the mapped closure and into the sponge *)
ParseVariant ==
    /\ pc = "variants"
    /\ vi <= Len(input.variants)
    /\ LET r == VariantClosure(input.variants[vi], vi, errors)
       IN  /\ errors' = r.errors
           /\ mapped' = Append(mapped, r.res)
           /\ sponge' = AllErrors_step(sponge, r.res)
    /\ vi' = vi + 1
    /\ UNCHANGED <<input, pc, enum_info, result, output, ledger_vars>>

(* errors.absorb(variants.into_result())? and the EnumInfo *)
FinishEnum ==
    /\ pc = "variants"
    /\ vi > Len(input.variants)
    /\ LET variants == SyntaxErrors_absorb(errors, AllErrors_into_result(sponge))
       IN  result' = Some(IF variants.ok
                          THEN Ok(EnumInfo(enum_info.crate_root, input.ident,
                                           Unwrap(variants.val),
                                           enum_info.default_visibility, enum_info.module))
                          ELSE Err(variants.err))
    /\ pc' = "parsed"
    /\ UNCHANGED <<input, errors, enum_info, vi, sponge, mapped, output, ledger_vars>>

(* parse_snafu_struct, named or unit: up to the return of field_container *)
ParseNamedStruct ==
    /\ pc = "start"
    /\ input.data = "Struct"
    /\ input.fields_kind \in {"Named", "Unit"}
    /\ IF ~attributes_from_syn(input.attrs, 0, 0).ok
       THEN /\ result' = Some(Err(attributes_from_syn(input.attrs, 0, 0).err))
            /\ pc' = "parsed"
            /\ UNCHANGED <<errors, mapped>>
       ELSE LET fc == NamedStructContainer(
                          IF input.fields_kind = "Named" THEN input.fields ELSE <<>>,
                          input.ident, input.attrs, Span(0, 0, 0, 0, "type"))
            IN  /\ errors' = fc.errors
                /\ mapped' = <<fc.res>>
                /\ pc' = "struct"
                /\ UNCHANGED result
    /\ UNCHANGED <<input, enum_info, vi, sponge, output, ledger_vars>>

FinishNamedStruct ==
    /\ pc = "struct"
    /\ result' = Some(NamedStructFinish([res |-> mapped[1], errors |-> errors], input.attrs))
    /\ pc' = "parsed"
    /\ UNCHANGED <<input, errors, enum_info, vi, sponge, mapped, output, ledger_vars>>

ParseTupleStruct ==
    /\ pc = "start"
    /\ input.data = "Struct"
    /\ input.fields_kind = "Unnamed"
    /\ result' = Some(parse_snafu_tuple_struct(input.fields, input.ident, input.attrs,
                                               Span(0, 0, 0, 0, "type")))
    /\ pc' = "parsed"
    /\ UNCHANGED <<input, errors, enum_info, vi, sponge, mapped, output, ledger_vars>>

(* impl_snafu_macro: the generated code, or the compile errors.  Of the    *)
(* generated code the state keeps the information it is generated from and *)
(* the visibility of each context selector, in the order of the selectors. *)
ImplSnafuMacro ==
    /\ pc = "parsed"
    /\ LET generate_snafu(info) ==
               CASE info.shape = "Enum" ->
                        [k \in 1..Len(info.variants) |->
                            ContextSelector_visibility(info, info.variants[k])]
                 [] info.shape = "NamedStruct" ->
                        <<selector_visibility(info.the_field_container.visibility,
                                              info.the_field_container.module)>>
                 [] OTHER -> <<>>
       IN  output' = IF Unwrap(result).ok
                     THEN [artifact |-> Unwrap(result).val, compile_errors |-> <<>>,
                           selectors |-> generate_snafu(Unwrap(Unwrap(result).val))]
                     ELSE [artifact |-> None,
                           compile_errors |-> to_compile_errors(Unwrap(result).err),
                           selectors |-> <<>>]
    /\ pc' = "done"
    /\ UNCHANGED <<input, errors, enum_info, vi, sponge, mapped, result, ledger_vars>>

(***************************************************************************)
(* One AtMostOne ledger driven by arbitrary calls.  calls records the      *)
(* (item, tokens) of every add so far; the tokens of the k-th call are the *)
(* k-th annotation of the scope.                                           *)
(***************************************************************************)
LedgerNames == {"visibility", "source"}
LedgerLocations == {"OnEnum", "OnField"}
LedgerItems == {"pub", "pub(crate)", "pub(super)"}

InitLedger ==
    /\ input = EnumInput("Error", <<>>, <<>>)
    /\ pc = "ledger"
    /\ errors = <<>>
    /\ enum_info = NoEnumInfo
    /\ vi = 1
    /\ sponge = [inner |-> <<>>, errors |-> <<>>]
    /\ mapped = <<>>
    /\ result = None
    /\ output = NoOutput
    /\ \E n \in LedgerNames, l \in LedgerLocations : ledger = AtMostOne_new(n, l)
    /\ calls = <<>>
    /\ finished = None

derive_vars == <<input, pc, errors, enum_info, vi, sponge, mapped, result, output>>

LedgerAdd ==
    /\ IsNone(finished)
    /\ Len(calls) < MaxAdds
    /\ \E item \in LedgerItems :
         LET tokens == Span(0, 0, Len(calls) + 1, 1, "item")
         IN  /\ ledger' = AtMostOne_add(ledger, item, tokens)
             /\ calls' = Append(calls, [item |-> item, tokens |-> tokens])
    /\ UNCHANGED <<finished, derive_vars>>

(* finish_with_location consumes the ledger: pop_front takes the first value *)
LedgerFinish ==
    /\ IsNone(finished)
    /\ finished' = Some(AtMostOne_finish_with_location(ledger))
    /\ ledger' = [ledger EXCEPT !.values = IF @ = <<>> THEN @ ELSE Tail(@),
                                !.errors = <<>>]
    /\ UNCHANGED <<calls, derive_vars>>

NextLedger == LedgerAdd \/ LedgerFinish

SpecLedger == InitLedger /\ [][NextLedger]_vars

(***************************************************************************)
(* Families of derive inputs.                                              *)
(***************************************************************************)
SeqsUpTo(S, n) == UNION {[1..k -> S] : k \in 0..n}

FieldNames == {"source", "backtrace", "message", "id"}

BogusItem == Item("bogus", FALSE, <<>>)

(* One field-classifying scope, as a named struct and as the only variant  *)
(* of an enum.                                                             *)
ScopeInputs(attrs, fields) ==
    {StructInput("Error", attrs, "Named", fields),
     EnumInput("Error", <<>>, <<Variant("Alpha", attrs, "Named", fields)>>)}

(* Scopes that vary in their own annotations: up to MaxScopeAttrs          *)
(* annotations of one item each, over up to MaxFields fields told apart by *)
(* name, one of which may carry an annotation that does not parse.         *)
KindScopeItems ==
    {Item("context", FALSE, <<>>),
     Item("context", TRUE, <<ArgBool(FALSE)>>),
     Item("context", TRUE, <<ArgSuffixIdent("Ctx")>>),
     Item("whatever", FALSE, <<>>),
     Item("source", FALSE, <<>>),
     BogusItem}

KindFields ==
    {RawField(n, "Ty", <<>>) : n \in FieldNames}
        \cup {RawField("id", "Ty", <<SnafuAnn(<<BogusItem>>)>>),
              RawField("cause", "Ty", <<SnafuAnn(<<Item("source", FALSE, <<>>)>>)>>)}

InitKind ==
    \E attrs \in SeqsUpTo({SnafuAnn(<<it>>) : it \in KindScopeItems}, MaxScopeAttrs),
       fields \in SeqsUpTo(KindFields, MaxFields) :
        \E ty \in ScopeInputs(attrs, fields) : InitOf(ty)

NextScope ==
    \/ ParseEnumAttrs
    \/ ParseVariant
    \/ FinishEnum
    \/ ParseNamedStruct
    \/ FinishNamedStruct
    \/ ImplSnafuMacro

SpecKind == InitKind /\ [][NextScope]_vars

(* Scopes that vary in the annotations of one field: the scope itself    *)
(* carries none, one field carries up to MaxFieldAttrs annotations, and    *)
(* the other fields (before or after it) are told apart by name only.      *)
FieldItems ==
    {Item("source", FALSE, <<>>),
     Item("source", TRUE, <<ArgBool(FALSE)>>),
     Item("source", TRUE, <<ArgFrom("A", "a")>>),
     Item("source", TRUE, <<ArgFrom("A", "a"), ArgBool(FALSE)>>),
     Item("source", TRUE, <<ArgBool(FALSE), ArgFrom("A", "a")>>),
     Item("backtrace", FALSE, <<>>),
     Item("backtrace", TRUE, <<ArgBool(FALSE)>>),
     Item("backtrace", TRUE, <<ArgBool(TRUE), ArgBool(FALSE)>>)}

SubjectNames == {"source", "backtrace", "id"}

InitField ==
    \E name \in SubjectNames,
       attrs \in SeqsUpTo({SnafuAnn(<<it>>) : it \in FieldItems}, MaxFieldAttrs),
       rest \in SeqsUpTo({RawField(n, "Ty", <<>>) : n \in SubjectNames}, MaxFields - 1),
       front \in BOOLEAN :
        \E ty \in ScopeInputs(<<>>, IF front THEN <<RawField(name, "Ty", attrs)>> \o rest
                                    ELSE rest \o <<RawField(name, "Ty", attrs)>>) :
            InitOf(ty)

SpecField == InitField /\ [][NextScope]_vars

(* Scopes that vary in the annotations the parser tells apart by path.  In  *)
(* the first family an enum or a struct places and opens its selectors:    *)
(* up to MaxScopeAttrs visibility and module annotations on the container  *)
(* and up to MaxScopeAttrs visibility annotations on the first of two      *)
(* variants.  In the second a scope carries up to MaxDocLines annotations, *)
(* each a doc line, an annotation of another tool, or a snafu annotation   *)
(* that is reported, and its field may carry one of another tool too.      *)
InitAnnotated ==
    LET Vis == {SnafuAnn(<<Item("visibility", TRUE, <<ArgTokens("pub")>>)>>),
                SnafuAnn(<<Item("visibility", TRUE, <<ArgTokens("pub(crate)")>>)>>),
                SnafuAnn(<<Item("visibility", FALSE, <<>>)>>)}
        Mod == {SnafuAnn(<<Item("module", FALSE, <<>>)>>),
                SnafuAnn(<<Item("module", TRUE, <<ArgTokens("errs")>>)>>)}
        Lines == {DocAnn(<<"a">>), DocAnn(<<" ", "b", " ">>), DocAnn(<<"c", " ", "d">>),
                  DocAnn(<<>>), DocAnn(<<" ", "\t">>)}
        Passed == {OtherAnn("serde"), SnafuAnn(<<Item("source", FALSE, <<>>)>>)}
        Id == RawField("id", "Ty", <<>>)
    IN  \/ \E outer \in SeqsUpTo(Vis \cup Mod, MaxScopeAttrs),
              inner \in SeqsUpTo(Vis, MaxScopeAttrs) :
              \E ty \in {EnumInput("Error", outer,
                                    <<Variant("Alpha", inner, "Unit", <<>>),
                                      Variant("Beta", <<>>, "Named", <<Id>>)>>),
                          StructInput("Error", outer \o inner, "Named", <<Id>>),
                          StructInput("Error", outer \o inner, "Unit", <<>>)} :
                  InitOf(ty)
        \/ \E attrs \in SeqsUpTo(Lines \cup Passed, MaxDocLines),
              on_field \in SeqsUpTo({OtherAnn("serde")}, 1) :
              \E ty \in ScopeInputs(attrs, <<RawField("id", "Ty", on_field)>>) :
                  InitOf(ty)

SpecAnnotated == InitAnnotated /\ [][NextScope]_vars

(* Whole derive inputs: enums of up to MaxVariants variants, each of one of *)
(* the shapes below, under each of a few lists of enum annotations; and    *)
(* one struct or union of each kind that parse_snafu_information tells     *)
(* apart.                                                                  *)
(* annotations that say the same thing twice, differently *)
Repeated ==
    [scope |-> <<SnafuAnn(<<Item("display", TRUE, <<ArgTokens("x")>>),
                            Item("display", TRUE, <<ArgTokens("y")>>),
                            Item("visibility", TRUE, <<ArgTokens("pub(crate)")>>),
                            Item("visibility", TRUE, <<ArgTokens("pub")>>)>>),
                 SnafuAnn(<<Item("context", TRUE, <<ArgSuffixIdent("Ctx")>>),
                            Item("context", TRUE, <<ArgBool(FALSE)>>)>>)>>,
     field |-> <<SnafuAnn(<<Item("source", TRUE, <<ArgFrom("A", "a")>>)>>),
                 SnafuAnn(<<Item("source", TRUE, <<ArgFrom("B", "b")>>)>>)>>]

VariantShapes ==
    {Variant("Alpha", <<>>, "Unit", <<>>),
     Variant("Beta", <<>>, "Named", <<RawField("id", "Ty", <<>>)>>),
     Variant("Gamma", <<>>, "Unnamed", <<RawTupleField("Ty", <<>>)>>),
     Variant("Delta", <<SnafuAnn(<<Item("whatever", FALSE, <<>>)>>)>>, "Named",
             <<RawField("id", "Ty", <<>>)>>),
     Variant("Epsilon", <<SnafuAnn(<<Item("context", FALSE, <<>>),
                                     Item("whatever", FALSE, <<>>)>>)>>, "Unit", <<>>),
     Variant("Zeta", <<SnafuAnn(<<BogusItem>>)>>, "Unit", <<>>),
     Variant("Eta", <<SnafuAnn(<<Item("source", FALSE, <<>>)>>)>>, "Unit", <<>>),
     Variant("Theta", <<SnafuAnn(<<BogusItem>>)>>, "Unnamed", <<RawTupleField("Ty", <<>>)>>),
     Variant("Iota", <<SnafuAnn(<<Item("display", TRUE, <<ArgTokens("With a source")>>)>>)>>,
             "Named", <<RawField("id", "Ty", <<>>), RawField("source", "Inner", <<>>)>>),
     Variant("Kappa", Repeated.scope, "Named",
             <<RawField("id", "Ty", <<>>), RawField("source", "Inner", Repeated.field)>>)}

EnumAnnotations ==
    {<<>>,
     <<SnafuAnn(<<Item("crate_root", TRUE, <<ArgTokens("a")>>),
                  Item("crate_root", TRUE, <<ArgTokens("b")>>),
                  Item("visibility", TRUE, <<ArgTokens("pub(crate)")>>),
                  Item("visibility", TRUE, <<ArgTokens("pub")>>),
                  Item("module", TRUE, <<ArgTokens("errs")>>),
                  Item("module", FALSE, <<>>)>>)>>,
     <<SnafuAnn(<<Item("visibility", TRUE, <<ArgTokens("pub")>>)>>)>>,
     <<SnafuAnn(<<Item("context", FALSE, <<>>)>>)>>,
     <<SnafuAnn(<<BogusItem>>)>>}

OtherInputs ==
    LET TupleAnnotations ==
            {<<>>,
             <<SnafuAnn(<<Item("source", TRUE, <<ArgFrom("A", "a")>>)>>)>>,
             <<SnafuAnn(<<Item("backtrace", FALSE, <<>>)>>)>>,
             <<SnafuAnn(<<Item("source", TRUE, <<ArgFrom("A", "a")>>)>>),
               SnafuAnn(<<Item("source", TRUE, <<ArgFrom("B", "b")>>)>>)>>,
             <<SnafuAnn(<<BogusItem>>)>>,
             <<SnafuAnn(<<Item("whatever", FALSE, <<>>)>>)>>,
             <<SnafuAnn(<<Item("module", FALSE, <<>>),
                          Item("display", TRUE, <<ArgTokens("x")>>),
                          Item("visibility", TRUE, <<ArgTokens("pub")>>),
                          Item("source", FALSE, <<>>),
                          Item("backtrace", FALSE, <<>>),
                          Item("context", FALSE, <<>>)>>)>>}
        TupleFields ==
            {<<>>,
             <<RawTupleField("Ty", <<>>)>>,
             <<RawTupleField("Ty", <<>>), RawTupleField("Inner", <<>>)>>}
        Misplaced ==
            [outer |-> <<SnafuAnn(<<Item("display", TRUE, <<ArgTokens("x")>>),
                                    Item("source", FALSE, <<>>),
                                    Item("source", TRUE, <<ArgFrom("A", "a")>>),
                                    Item("backtrace", FALSE, <<>>),
                                    Item("context", FALSE, <<>>),
                                    Item("whatever", FALSE, <<>>)>>)>>,
             scope |-> <<SnafuAnn(<<Item("source", FALSE, <<>>),
                                    Item("backtrace", FALSE, <<>>),
                                    Item("crate_root", TRUE, <<ArgTokens("a")>>)>>)>>,
             field |-> <<SnafuAnn(<<Item("module", FALSE, <<>>),
                                    Item("visibility", TRUE, <<ArgTokens("pub")>>),
                                    Item("display", TRUE, <<ArgTokens("x")>>),
                                    Item("context", FALSE, <<>>),
                                    Item("whatever", FALSE, <<>>),
                                    Item("crate_root", TRUE, <<ArgTokens("a")>>)>>)>>]
        Placed ==
            {<<>>,
             <<SnafuAnn(<<Item("module", FALSE, <<>>)>>)>>,
             <<SnafuAnn(<<Item("module", TRUE, <<ArgTokens("errs")>>)>>)>>,
             <<SnafuAnn(<<Item("visibility", TRUE, <<ArgTokens("pub(crate)")>>)>>),
               SnafuAnn(<<Item("module", FALSE, <<>>)>>)>>}
        ContextForms ==
            {Item("context", FALSE, <<>>),
             Item("context", TRUE, <<ArgBool(TRUE)>>),
             Item("context", TRUE, <<ArgSuffixBool(TRUE)>>),
             Item("context", TRUE, <<ArgSuffixBool(FALSE)>>),
             Item("context", TRUE, <<ArgSuffixIdent("Ctx")>>)}
    IN  {StructInput("Error", <<>>, "Named", <<RawField("id", "Ty", <<>>)>>),
         StructInput("Error", <<SnafuAnn(<<Item("source", FALSE, <<>>)>>)>>, "Named",
                     <<RawField("id", "Ty", <<>>)>>),
         StructInput("Error", <<>>, "Unit", <<>>),
         StructInput("Error",
                     Repeated.scope \o <<SnafuAnn(<<Item("module", FALSE, <<>>)>>),
                                         SnafuAnn(<<Item("module", TRUE, <<ArgTokens("errs")>>)>>)>>,
                     "Named",
                     <<RawField("id", "Ty", <<>>), RawField("source", "Inner", Repeated.field)>>),
         [StructInput("Error", <<>>, "Named", <<>>) EXCEPT !.data = "Union"]}
            \cup {StructInput("Error", attrs, "Unnamed", fields) :
                     attrs \in TupleAnnotations, fields \in TupleFields}
            \cup UNION {ScopeInputs(<<SnafuAnn(<<it>>)>>, <<RawField("id", "Ty", <<>>)>>) :
                            it \in ContextForms}
            \cup {EnumInput("Error", outer,
                            <<Variant("Alpha", first, "Unit", <<>>),
                              Variant("Beta", second, "Named", <<RawField("id", "Ty", <<>>)>>)>>) :
                     outer \in Placed, first \in Placed, second \in Placed}
            \cup {StructInput("Error", Misplaced.scope, "Named",
                              <<RawField("id", "Ty", Misplaced.field)>>),
                  EnumInput("Error", Misplaced.outer,
                            <<Variant("Alpha", Misplaced.scope, "Named",
                                      <<RawField("id", "Ty", Misplaced.field)>>)>>)}

Init ==
    \/ \E attrs \in EnumAnnotations, variants \in SeqsUpTo(VariantShapes, MaxVariants) :
          InitOf(EnumInput("Error", attrs, variants))
    \/ \E ty \in OtherInputs : InitOf(ty)

Next ==
    \/ ParseUnsupported
    \/ ParseEnumAttrs
    \/ ParseVariant
    \/ FinishEnum
    \/ ParseNamedStruct
    \/ FinishNamedStruct
    \/ ParseTupleStruct
    \/ ImplSnafuMacro

Spec == Init /\ [][Next]_vars

(***************************************************************************)
(* Properties.  They are stated over the derive input as syn hands it      *)
(* over, not over the intermediate values of the functions above.          *)
(***************************************************************************)
(* The k-th scope that field_container is run on, and its variant number   *)
(* in spans (0 for a struct).                                              *)
ScopeOf(k) == IF input.data = "Enum" THEN input.variants[k] ELSE input
ScopeV(k) == IF input.data = "Enum" THEN k ELSE 0
ScopeSpan(k) ==
    IF input.data = "Enum" THEN [v |-> k, f |-> 0, a |-> 0, i |-> 0, part |-> "ident"]
    ELSE [v |-> 0, f |-> 0, a |-> 0, i |-> 0, part |-> "type"]

(* the (annotation, item) positions of the snafu items of an element *)
ItemsAt(attrs) ==
    UNION {{<<a, i>> : i \in 1..Len(attrs[a].items)} :
             a \in {n \in 1..Len(attrs) : attrs[n].path = "snafu"}}
ItemOf(attrs, p) == attrs[p[1]].items[p[2]]
Before(p, q) == p[1] < q[1] \/ (p[1] = q[1] /\ p[2] < q[2])
KwAt(attrs, kw) == {p \in ItemsAt(attrs) : ItemOf(attrs, p).kw = kw}
FirstKw(attrs, kw) ==
    CHOOSE p \in KwAt(attrs, kw) : \A q \in KwAt(attrs, kw) : q = p \/ Before(p, q)
ItemSpan(v, f, p) == [v |-> v, f |-> f, a |-> p[1], i |-> p[2], part |-> "item"]
FieldSpan(v, f) == [v |-> v, f |-> f, a |-> 0, i |-> 0, part |-> "field"]

WellFormedItem(it) ==
    /\ it.kw # "bogus"
    /\ it.kw = "backtrace" /\ it.paren => Len(it.args) = 1
AnnotationsParse(attrs) == \A p \in ItemsAt(attrs) : WellFormedItem(ItemOf(attrs, p))
FieldsParse(scope) ==
    \A f \in 1..Len(scope.fields) : AnnotationsParse(scope.fields[f].attrs)
(* field_container is run on the scope and reaches the selector kind *)
ScopeParses(scope) ==
    /\ scope.fields_kind # "Unnamed"
    /\ AnnotationsParse(scope.attrs)
    /\ FieldsParse(scope)

IsLiteral(arg, text) == arg.form = "bool" /\ arg.t1 = text
(* context, context(true), context(suffix(..)) enable; context(false) disables *)
ContextDisables(it) == it.paren /\ Len(it.args) = 1 /\ IsLiteral(it.args[1], "false")

HasWhatever(scope) == KwAt(scope.attrs, "whatever") # {}
HasContext(scope) == KwAt(scope.attrs, "context") # {}
FirstContext(scope) == ItemOf(scope.attrs, FirstKw(scope.attrs, "context"))

(* The roles of the fields, by the rules of the field classifier. *)
PositiveOccurrence(field, kw) ==
    \E p \in KwAt(field.attrs, kw) :
        \/ ~ItemOf(field.attrs, p).paren
        \/ \E n \in 1..Len(ItemOf(field.attrs, p).args) :
              ~IsLiteral(ItemOf(field.attrs, p).args[n], "false")
OptOut(field, kw) ==
    \E p \in KwAt(field.attrs, kw) :
        /\ ItemOf(field.attrs, p).paren
        /\ \E n \in 1..Len(ItemOf(field.attrs, p).args) :
              IsLiteral(ItemOf(field.attrs, p).args[n], "false")
Qualifies(field, kw) ==
    PositiveOccurrence(field, kw) \/ (field.ident = <<kw>> /\ ~OptOut(field, kw))
IsCausal(field) == Qualifies(field, "source")
IsTrace(field) == ~IsCausal(field) /\ Qualifies(field, "backtrace")
IsUserVisible(field) == ~IsCausal(field) /\ ~IsTrace(field)

CausalFields(scope) == {f \in 1..Len(scope.fields) : IsCausal(scope.fields[f])}
TraceFields(scope) == {f \in 1..Len(scope.fields) : IsTrace(scope.fields[f])}
UserFields(scope) == {f \in 1..Len(scope.fields) : IsUserVisible(scope.fields[f])}
MessageFields(scope) == {f \in UserFields(scope) : scope.fields[f].ident = <<"message">>}
Least(S) == CHOOSE x \in S : \A y \in S : x <= y
Ascending(S) ==
    [n \in 1..Cardinality(S) |-> CHOOSE x \in S : Cardinality({y \in S : y < x}) = n - 1]

(* the Field value of the f-th field of the k-th scope *)
FieldAt(k, f) ==
    [name |-> ScopeOf(k).fields[f].ident[1], ty |-> ScopeOf(k).fields[f].ty,
     original |-> FieldSpan(ScopeV(k), f)]
FieldsAt(k, S) == [n \in 1..Cardinality(S) |-> FieldAt(k, Ascending(S)[n])]

Kind(k) == mapped[k].val[1].selector_kind
Generated == pc = "done" /\ output.artifact # <<>>
Rejected == pc = "done" /\ output.artifact = <<>> /\ output.compile_errors # <<>>
DuplicateText(name, location) ==
    <<"Multiple '", name, "' attributes are not supported ", ErrorLocationDisplay(location)>>

(* The duplicate diagnostics that n calls must have left: one for each call *)
(* after the first, at that call's tokens.                                  *)
ExpectedDuplicates ==
    [k \in 1..(IF Len(calls) = 0 THEN 0 ELSE Len(calls) - 1) |->
       [tokens |-> calls[k + 1].tokens,
        message |-> DuplicateText(ledger.name, ledger.location)]]

(* C8: after n add calls the ledger holds max(0, n-1) duplicate diagnostics, *)
(* one per call after the first, at that call's tokens and naming the        *)
(* ledger's attribute and scope; its queue holds all n values in insertion   *)
(* order; finish returns the first added value, and nothing when n = 0.      *)
C8_LedgerAfterAdds ==
    /\ pc = "ledger" /\ IsNone(finished) =>
         /\ ledger.values = calls
         /\ ledger.errors = ExpectedDuplicates
         /\ Len(ledger.errors) = (IF Len(calls) = 0 THEN 0 ELSE Len(calls) - 1)
    /\ pc = "ledger" /\ IsSome(finished) =>
         /\ Unwrap(finished).value = (IF calls = <<>> THEN <<>> ELSE <<calls[1]>>)
         /\ Unwrap(finished).errors = ExpectedDuplicates
         /\ (calls = <<>> => Unwrap(finished).errors = <<>>)

C8_Witness ==
    /\ pc = "ledger"
    /\ IsSome(finished)
    /\ Len(calls) = 3
    /\ calls[1].item # calls[2].item
    /\ Len(Unwrap(finished).errors) = 2

NoAnnotations(scope) ==
    /\ scope.attrs = <<>>
    /\ \A f \in 1..Len(scope.fields) : scope.fields[f].attrs = <<>>

AllFields(k) == 1..Len(ScopeOf(k).fields)

(* C1 as stated: a scope without any annotation resolves to Context with    *)
(* the default suffix, no causal field, and every declared field as a       *)
(* user-visible field in declaration order.                                 *)
C1_AsStated ==
    \A k \in 1..Len(mapped) :
        NoAnnotations(ScopeOf(k)) =>
            /\ mapped[k].ok
            /\ Kind(k).kind = "Context"
            /\ Kind(k).suffix = [kind |-> "Default", ident |-> ""]
            /\ Kind(k).source_field = <<>>
            /\ Kind(k).user_fields = FieldsAt(k, AllFields(k))

(* C1 amended: a scope without any annotation resolves to Context with the  *)
(* default suffix; its causal field is the first field named source (none   *)
(* if no field has that name), with the identity transformation, and its    *)
(* user-visible fields are the fields named neither source nor backtrace,   *)
(* in declaration order.                                                    *)
NamedFields(k, name) == {f \in AllFields(k) : ScopeOf(k).fields[f].ident = <<name>>}

C1_NoAnnotations ==
    \A k \in 1..Len(mapped) :
        NoAnnotations(ScopeOf(k)) =>
            /\ mapped[k].ok
            /\ Kind(k).kind = "Context"
            /\ Kind(k).suffix = [kind |-> "Default", ident |-> ""]
            /\ Kind(k).user_fields =
                  FieldsAt(k, AllFields(k) \ (NamedFields(k, "source")
                                                \cup NamedFields(k, "backtrace")))
            /\ IF NamedFields(k, "source") = {}
               THEN Kind(k).source_field = <<>>
               ELSE /\ Len(Kind(k).source_field) = 1
                    /\ Kind(k).source_field[1].name = "source"
                    /\ Kind(k).source_field[1].transformation =
                         [kind |-> "None",
                          ty |-> ScopeOf(k).fields[Least(NamedFields(k, "source"))].ty,
                          expr |-> ""]

C1_Witness ==
    /\ Len(mapped) = 1
    /\ NoAnnotations(ScopeOf(1))
    /\ Len(ScopeOf(1).fields) = 2
    /\ NamedFields(1, "source") = {2}
    /\ NamedFields(1, "id") = {1}
    /\ mapped[1].ok
    /\ Len(Kind(1).user_fields) = 1

BothText == <<"Cannot be both a 'context' and 'whatever' error">>
AtFirst(k, kw) ==
    [tokens |-> ItemSpan(ScopeV(k), 0, FirstKw(ScopeOf(k).attrs, kw)), message |-> BothText]
Reported(d) == \E n \in 1..Len(output.compile_errors) : output.compile_errors[n].compile_error = d

EnabledContextAndWhatever(scope) ==
    /\ HasWhatever(scope)
    /\ HasContext(scope)
    /\ ~ContextDisables(FirstContext(scope))
    /\ ScopeParses(scope)

RecordedWith(k, text) ==
    {n \in 1..Len(errors) : errors[n].message = text /\ errors[n].tokens.v = ScopeV(k)}
RecordedOncePerField(k, S, text) ==
    /\ Cardinality(RecordedWith(k, text)) = Cardinality(S)
    /\ \A f \in S : \E n \in RecordedWith(k, text) :
                        errors[n].tokens = FieldSpan(ScopeV(k), f)
CausalName(k) == ScopeOf(k).fields[Least(CausalFields(ScopeOf(k)))].ident[1]
CarriesCausal(k) ==
    IF CausalFields(ScopeOf(k)) = {} THEN Kind(k).source_field = <<>>
    ELSE Len(Kind(k).source_field) = 1 /\ Kind(k).source_field[1].name = CausalName(k)

WhateverRow(scope) ==
    /\ HasWhatever(scope)
    /\ ~HasContext(scope) \/ ContextDisables(FirstContext(scope))
    /\ ScopeParses(scope)

(* C3: with whatever present and context absent or context(false), the       *)
(* scope resolves to Whatever carrying the causal field (if any) and the     *)
(* user field named message; one diagnostic is recorded for every other      *)
(* user-visible field; the scope is rejected when no field or more than one  *)
(* field is named message, so it is accepted only with exactly one message   *)
(* field and no other user-visible field.                                    *)
C3_Whatever ==
    \A k \in 1..Len(mapped) :
        WhateverRow(ScopeOf(k)) =>
            LET msgs == MessageFields(ScopeOf(k))
                others == UserFields(ScopeOf(k)) \ msgs
            IN  /\ RecordedOncePerField(k, others,
                       <<"Whatever selectors must not have context fields">>)
                /\ msgs = {} =>
                     mapped[k] = [ok |-> FALSE, val |-> <<>>,
                                  err |-> <<[tokens |-> ScopeSpan(k),
                                             message |->
                                   <<"Whatever selectors must have a message field">>]>>]
                /\ msgs # {} =>
                     /\ mapped[k].ok
                     /\ Kind(k).kind = "Whatever"
                     /\ Kind(k).message_field = <<FieldAt(k, Least(msgs))>>
                     /\ CarriesCausal(k)
                /\ Cardinality(msgs) # 1 /\ pc = "done" => Rejected
                /\ Generated => Cardinality(msgs) = 1 /\ others = {}

C3_Witness ==
    /\ Generated
    /\ Len(mapped) = 1
    /\ WhateverRow(ScopeOf(1))
    /\ HasContext(ScopeOf(1))
    /\ Kind(1).kind = "Whatever"
    /\ Len(Kind(1).source_field) = 1
    /\ Kind(1).message_field[1].name = "message"

NoContextRow(scope) ==
    /\ HasContext(scope)
    /\ ContextDisables(FirstContext(scope))
    /\ ~HasWhatever(scope)
    /\ ScopeParses(scope)

(* C4: with context(false) present and whatever absent, the scope resolves   *)
(* to NoContext carrying the causal field; one diagnostic is recorded for    *)
(* every user-visible field; without a causal field the scope is rejected    *)
(* with "Context selectors without context must have a source field"; so a   *)
(* validated NoContext scope has a causal field and no user-visible field.   *)
C4_NoContext ==
    \A k \in 1..Len(mapped) :
        NoContextRow(ScopeOf(k)) =>
            /\ RecordedOncePerField(k, UserFields(ScopeOf(k)),
                   <<"Context selectors without context must not have context fields">>)
            /\ CausalFields(ScopeOf(k)) = {} =>
                 /\ mapped[k] = [ok |-> FALSE, val |-> <<>>,
                                 err |-> <<[tokens |-> ScopeSpan(k),
                                            message |->
                     <<"Context selectors without context must have a source field">>]>>]
                 /\ pc = "done" => Rejected
            /\ CausalFields(ScopeOf(k)) # {} =>
                 /\ mapped[k].ok
                 /\ Kind(k).kind = "NoContext"
                 /\ CarriesCausal(k)
            /\ Generated => CausalFields(ScopeOf(k)) # {} /\ UserFields(ScopeOf(k)) = {}

C4_Witness ==
    /\ pc = "done"
    /\ Len(mapped) = 1
    /\ NoContextRow(ScopeOf(1))
    /\ Cardinality(UserFields(ScopeOf(1))) = 1
    /\ Cardinality(CausalFields(ScopeOf(1))) = 1
    /\ mapped[1].ok
    /\ Kind(1).kind = "NoContext"
    /\ Rejected

(* the diagnostics recorded so far that lie within field f of scope k *)
RecordedIn(k, f) ==
    {n \in 1..Len(errors) : errors[n].tokens.v = ScopeV(k) /\ errors[n].tokens.f = f}
Recorded(d) == \E n \in 1..Len(errors) : errors[n] = d
UserFieldOf(k, f) ==
    \E n \in 1..Len(Kind(k).user_fields) : Kind(k).user_fields[n] = FieldAt(k, f)
TraceFieldOf(k, f) == mapped[k].val[1].backtrace_field = <<FieldAt(k, f)>>
OnlyItem(field, it) == field.attrs = <<[path |-> "snafu", items |-> <<it>>, doc |-> <<>>]>>
SourceFalse == [kw |-> "source", paren |-> TRUE,
                args |-> <<[form |-> "bool", t1 |-> "false", t2 |-> ""]>>]
OptOutsAt(field, kw) ==
    UNION {{<<p, n>> : n \in {m \in 1..Len(ItemOf(field.attrs, p).args) :
                                /\ ItemOf(field.attrs, p).paren
                                /\ IsLiteral(ItemOf(field.attrs, p).args[m], "false")}} :
           p \in KwAt(field.attrs, kw)}
WrongFieldText(attribute, valid_field) ==
    <<"'", attribute, "' attribute is only valid on a field named \"", valid_field,
      "\", not on other fields">>

(* C5: a field named source without annotations is the causal field; the     *)
(* same field annotated only source(false) is a user-visible field and       *)
(* records no diagnostic; source(false) on a field of any other name         *)
(* records "'source(false)' attribute is only valid on a field named         *)
(* "source", not on other fields".                                           *)
C5_SourceByName ==
    \A k \in 1..Len(mapped) :
        ScopeParses(ScopeOf(k)) /\ mapped[k].ok =>
            \A f \in 1..Len(ScopeOf(k).fields) :
                LET field == ScopeOf(k).fields[f]
                IN  /\ field.ident = <<"source">> /\ field.attrs = <<>> =>
                         /\ ~UserFieldOf(k, f)
                         /\ ~TraceFieldOf(k, f)
                         /\ Len(Kind(k).source_field) = 1
                         /\ f = Least(CausalFields(ScopeOf(k))) =>
                              Kind(k).source_field[1] =
                                  [name |-> "source",
                                   transformation |->
                                       [kind |-> "None", ty |-> field.ty, expr |-> ""],
                                   backtrace_delegate |-> FALSE]
                    /\ field.ident = <<"source">> /\ OnlyItem(field, SourceFalse) =>
                         /\ UserFieldOf(k, f)
                         /\ RecordedIn(k, f) = {}
                    /\ field.ident # <<"source">> =>
                         \A q \in OptOutsAt(field, "source") :
                             Recorded([tokens |-> ItemSpan(ScopeV(k), f, q[1]),
                                       message |-> WrongFieldText("source(false)", "source")])

C5_Witness ==
    /\ Len(mapped) = 1
    /\ mapped[1].ok
    /\ Len(ScopeOf(1).fields) = 2
    /\ ScopeOf(1).fields[1].ident = <<"source">>
    /\ ScopeOf(1).fields[1].attrs = <<>>
    /\ ScopeOf(1).fields[2].ident = <<"id">>
    /\ OnlyItem(ScopeOf(1).fields[2], SourceFalse)
    /\ Len(errors) = 1
    /\ Kind(1).source_field # <<>>

BacktraceFalse == [kw |-> "backtrace", paren |-> TRUE,
                   args |-> <<[form |-> "bool", t1 |-> "false", t2 |-> ""]>>]

(* C6: a field that is not causal becomes the trace field if it is named     *)
(* backtrace and has no backtrace(false), or if it carries a positive        *)
(* backtrace attribute; backtrace(false) on the field named backtrace        *)
(* suppresses the default without a diagnostic; backtrace(false) on a field  *)
(* of any other name records a diagnostic.                                   *)
C6_TraceByName ==
    \A k \in 1..Len(mapped) :
        ScopeParses(ScopeOf(k)) /\ mapped[k].ok =>
            /\ mapped[k].val[1].backtrace_field =
                  (IF TraceFields(ScopeOf(k)) = {} THEN <<>>
                   ELSE <<FieldAt(k, Least(TraceFields(ScopeOf(k))))>>)
            /\ \A f \in 1..Len(ScopeOf(k).fields) :
                LET field == ScopeOf(k).fields[f]
                IN  /\ f \in TraceFields(ScopeOf(k)) => ~UserFieldOf(k, f)
                    /\ field.ident = <<"backtrace">> /\ OnlyItem(field, BacktraceFalse) =>
                         /\ UserFieldOf(k, f)
                         /\ ~TraceFieldOf(k, f)
                         /\ RecordedIn(k, f) = {}
                    /\ field.ident # <<"backtrace">> =>
                         \A q \in OptOutsAt(field, "backtrace") :
                             Recorded([tokens |-> ItemSpan(ScopeV(k), f, q[1]),
                                       message |->
                                           WrongFieldText("backtrace(false)", "backtrace")])

C6_Witness ==
    /\ Len(mapped) = 1
    /\ mapped[1].ok
    /\ \E f \in 1..Len(ScopeOf(1).fields) :
          /\ ScopeOf(1).fields[f].ident = <<"id">>
          /\ OptOutsAt(ScopeOf(1).fields[f], "backtrace") # {}
          /\ TraceFieldOf(1, f)
          /\ RecordedIn(1, f) # {}
    /\ \E f \in 1..Len(ScopeOf(1).fields) :
          /\ ScopeOf(1).fields[f].ident = <<"backtrace">>
          /\ ~TraceFieldOf(1, f)

HasFrom(field) ==
    \E p \in KwAt(field.attrs, "source") :
        \E n \in 1..Len(ItemOf(field.attrs, p).args) :
            ItemOf(field.attrs, p).args[n].form = "from"
IncompatibleText ==
    <<"Incompatible attributes [", "'source(false)', 'source(from)'", "] specified ",
      "on a field">>

(* C7: a field of any name that carries both source(from(T, e)) and          *)
(* source(false) records "Incompatible attributes ['source(false)',          *)
(* 'source(from)'] specified on a field", whichever of the two comes first.  *)
C7_IncompatibleAnyOrder ==
    \A k \in 1..Len(mapped) :
        ScopeParses(ScopeOf(k)) =>
            \A f \in 1..Len(ScopeOf(k).fields) :
                HasFrom(ScopeOf(k).fields[f]) /\ OptOut(ScopeOf(k).fields[f], "source") =>
                    \E n \in RecordedIn(k, f) : errors[n].message = IncompatibleText

(* C9: no generated model has a field container with both a trace field and  *)
(* a causal field that delegates its trace: a scope that ends up with both   *)
(* records two diagnostics, one within the causal field and one within the   *)
(* trace field, and the derive fails.                                        *)
ConflictText ==
    <<"Cannot have 'backtrace' field and 'backtrace' attribute on a source field in the same variant">>
HasBoth(fc) ==
    /\ fc.backtrace_field # <<>>
    /\ fc.selector_kind.source_field # <<>>
    /\ fc.selector_kind.source_field[1].backtrace_delegate
Containers ==
    IF output.artifact = <<>> THEN <<>>
    ELSE IF output.artifact[1].shape = "Enum" THEN output.artifact[1].variants
    ELSE IF output.artifact[1].shape = "NamedStruct"
    THEN <<output.artifact[1].the_field_container>>
    ELSE <<>>

C9_NoTraceWithDelegate ==
    /\ \A n \in 1..Len(Containers) : ~HasBoth(Containers[n])
    /\ \A k \in 1..Len(mapped) :
         mapped[k].ok /\ HasBoth(mapped[k].val[1]) =>
            LET causal == Least(CausalFields(ScopeOf(k)))
                trace == Least(TraceFields(ScopeOf(k)))
            IN  /\ \E n \in RecordedIn(k, causal) : errors[n].message = ConflictText
                /\ \E n \in RecordedIn(k, trace) : errors[n].message = ConflictText
                /\ Cardinality({n \in 1..Len(errors) :
                       errors[n].message = ConflictText /\ errors[n].tokens.v = ScopeV(k)}) = 2
                /\ pc = "done" => Rejected

C9_Witness ==
    /\ pc = "done"
    /\ Len(mapped) = 1
    /\ mapped[1].ok
    /\ HasBoth(mapped[1].val[1])
    /\ Len(errors) = 2
    /\ Rejected

(* the diagnostics of the failing variants, in declaration order *)
FailingErrors ==
    LET acc[n \in 0..Len(mapped)] ==
          IF n = 0 THEN <<>>
          ELSE IF mapped[n].ok THEN acc[n - 1] ELSE acc[n - 1] \o mapped[n].err
    IN  acc[Len(mapped)]
SomeVariantFailed == \E k \in 1..Len(mapped) : ~mapped[k].ok

(* C10: in an enum every variant is resolved whether or not an earlier one *)
(* failed; the final diagnostic list holds the diagnostics of every        *)
(* failing variant; a model is returned only if every variant resolved,    *)
(* and its variants are in declaration order.                              *)
C10_EveryVariantResolved ==
    input.data = "Enum" /\ AnnotationsParse(input.attrs) =>
        /\ pc = "variants" => Len(mapped) = vi - 1
        /\ \A k \in 1..Len(mapped) :
              IF mapped[k].ok
              THEN mapped[k].val[1].name = input.variants[k].ident
              ELSE /\ mapped[k].err # <<>>
                   /\ \A n \in 1..Len(mapped[k].err) : mapped[k].err[n].tokens.v = k
        /\ pc \in {"parsed", "done"} =>
              /\ Len(mapped) = Len(input.variants)
              /\ result[1].ok =>
                    /\ ~SomeVariantFailed
                    /\ result[1].val[1].variants =
                          [k \in 1..Len(input.variants) |-> mapped[k].val[1]]
              /\ SomeVariantFailed =>
                    /\ ~result[1].ok
                    /\ result[1].err = errors \o FailingErrors
        /\ pc = "done" /\ SomeVariantFailed =>
              /\ Rejected
              /\ output.compile_errors =
                    [n \in 1..Len(errors \o FailingErrors) |->
                        [compile_error |-> (errors \o FailingErrors)[n]]]

C10_Witness ==
    /\ pc = "done"
    /\ input.data = "Enum"
    /\ Len(mapped) = 2
    /\ ~mapped[1].ok
    /\ ~mapped[2].ok
    /\ mapped[1].err # mapped[2].err
    /\ Len(output.compile_errors) = Len(mapped[1].err) + Len(mapped[2].err)

(* the items of a container's own annotations that are not valid on it *)
MisplacedOnTuple ==
    {p \in ItemsAt(input.attrs) :
        ItemOf(input.attrs, p).kw \in
            {"module", "display", "visibility", "backtrace", "context", "whatever"}}
IsTupleStruct == input.data = "Struct" /\ input.fields_kind = "Unnamed"

(* C11: whatever the shape of the container, every diagnostic recorded at   *)
(* any step of its resolution is in the final diagnostic list, also the     *)
(* non-fatal ones recorded before a fatal structural error of the same      *)
(* container.                                                               *)
C11_EveryRecordedReported ==
    pc = "done" =>
        /\ \A n \in 1..Len(errors) : Reported(errors[n])
        /\ IsTupleStruct /\ AnnotationsParse(input.attrs) =>
              \A p \in MisplacedOnTuple :
                  \E n \in 1..Len(output.compile_errors) :
                      output.compile_errors[n].compile_error.tokens = ItemSpan(0, 0, p)

AllResolved == \A k \in 1..Len(mapped) : mapped[k].ok

(* C12: artifacts are generated only when no diagnostic was recorded        *)
(* anywhere in the pipeline; once any diagnostic is recorded (container,    *)
(* variant or field scope) the result is the diagnostic list and nothing    *)
(* of the artifacts is emitted.                                             *)
C12_ArtifactsOnlyWithoutDiagnostics ==
    /\ output.artifact # <<>> => output.compile_errors = <<>>
    /\ pc # "done" => output = NoOutput
    /\ Generated =>
          /\ errors = <<>>
          /\ AllResolved
          /\ IsTupleStruct => MisplacedOnTuple = {}
    /\ pc = "done" /\ (errors # <<>> \/ ~AllResolved
                        \/ (IsTupleStruct /\ MisplacedOnTuple # {})) =>
          /\ Rejected
          /\ ~Unwrap(result).ok
          /\ output.compile_errors =
                [n \in 1..Len(Unwrap(result).err) |->
                    [compile_error |-> Unwrap(result).err[n]]]

C12_Witness ==
    /\ pc = "done"
    /\ Len(mapped) >= 1
    /\ AllResolved
    /\ errors # <<>>
    /\ Rejected

InnerLocation == IF input.data = "Enum" THEN "InVariant" ELSE "InNamedStruct"
(* the fields of the k-th scope at which a duplicate of the role is recorded *)
DuplicatesAt(k, role) ==
    {f \in 1..Len(ScopeOf(k).fields) :
        \E n \in RecordedIn(k, f) : errors[n].message = DuplicateText(role, InnerLocation)}
DuplicateCount(k, role) ==
    Cardinality({n \in 1..Len(errors) :
        /\ errors[n].tokens.v = ScopeV(k)
        /\ errors[n].message = DuplicateText(role, InnerLocation)})

(* C13: a validated field container has at most one causal and at most one *)
(* trace field: when several fields classify as causal (or as trace), the  *)
(* first in declaration order is retained, each extra field records one    *)
(* duplicate diagnostic, and no extra field becomes a user-visible field.  *)
C13_AtMostOneCausalAndTrace ==
    \A k \in 1..Len(mapped) :
        ScopeParses(ScopeOf(k)) /\ mapped[k].ok =>
            LET causal == CausalFields(ScopeOf(k))
                trace == TraceFields(ScopeOf(k))
            IN  /\ Len(Kind(k).source_field) <= 1
                /\ Len(mapped[k].val[1].backtrace_field) <= 1
                /\ causal # {} =>
                      /\ Kind(k).source_field # <<>>
                      /\ Kind(k).source_field[1].name =
                            ScopeOf(k).fields[Least(causal)].ident[1]
                      /\ DuplicatesAt(k, "source") = causal \ {Least(causal)}
                /\ DuplicateCount(k, "source") =
                      (IF causal = {} THEN 0 ELSE Cardinality(causal) - 1)
                /\ trace # {} =>
                      /\ TraceFieldOf(k, Least(trace))
                      /\ DuplicatesAt(k, "backtrace") = trace \ {Least(trace)}
                /\ DuplicateCount(k, "backtrace") =
                      (IF trace = {} THEN 0 ELSE Cardinality(trace) - 1)
                /\ \A f \in causal \cup trace : ~UserFieldOf(k, f)
                /\ pc = "done" /\ (Cardinality(causal) > 1 \/ Cardinality(trace) > 1) =>
                      Rejected

C13_Witness ==
    /\ pc = "done"
    /\ Len(mapped) = 1
    /\ mapped[1].ok
    /\ Cardinality(CausalFields(ScopeOf(1))) = 2
    /\ DuplicateCount(1, "source") = 1
    /\ Kind(1).user_fields = <<>>
    /\ Rejected

ShapeDiag(k) ==
    [tokens |-> [v |-> k, f |-> 0, a |-> 0, i |-> 0, part |-> "fields"],
     message |-> <<"Only struct-like and unit enum variants are supported">>]
ShapeDiagsOf(k) ==
    {n \in 1..Len(mapped[k].err) : mapped[k].err[n].message = ShapeDiag(k).message}

Asked(attrs) ==
    LET it == ItemOf(attrs, FirstKw(attrs, "visibility"))
    IN  IF it.paren THEN it.args ELSE <<>>
Written(n) == IF output.selectors[n] = <<>> THEN <<>> ELSE output.selectors[n][1]
ExpectedModifier(k) ==
    IF KwAt(ScopeOf(k).attrs, "visibility") # {} THEN Asked(ScopeOf(k).attrs)
    ELSE IF KwAt(input.attrs, "visibility") # {} THEN Asked(input.attrs)
    ELSE IF KwAt(input.attrs, "module") # {} THEN <<ArgTokens("pub")>>
    ELSE <<>>

C15_SelectorVisibility ==
    Generated =>
        /\ Len(output.selectors) = Len(Containers)
        /\ \A k \in 1..Len(output.selectors) : Written(k) = ExpectedModifier(k)

C15_Witness ==
    /\ Generated
    /\ input.data = "Enum"
    /\ Len(input.variants) = 2
    /\ KwAt(input.attrs, "module") # {}
    /\ KwAt(input.attrs, "visibility") = {}
    /\ KwAt(input.variants[1].attrs, "visibility") # {}
    /\ KwAt(input.variants[2].attrs, "visibility") = {}
    /\ Written(1) = <<>>
    /\ Written(2) = <<ArgTokens("pub")>>

(***************************************************************************)
(* C16: a tuple struct whose annotations parse is rejected with the single *)
(* diagnostic 'Can only derive `Snafu` for tuple structs with exactly one  *)
(* field', at the struct itself, when it has no field or more than one.    *)
(* With exactly one field that diagnostic is not reported; the struct is   *)
(* accepted when it carries no annotation or a single source(from(T, e)),  *)
(* and an accepted struct stores the identity on the type of its field     *)
(* without source(from) and the conversion from T through e with it.  A    *)
(* tuple struct with an annotation that does not parse is rejected for     *)
(* that alone.                                                             *)
(***************************************************************************)
OneFieldText == <<"Can only derive 'Snafu' for tuple structs with exactly one field">>
Froms(attrs) ==
    {q \in {<<p, n>> : p \in KwAt(attrs, "source"), n \in 1..MaxFieldAttrs} :
        /\ ItemOf(attrs, q[1]).paren
        /\ q[2] <= Len(ItemOf(attrs, q[1]).args)
        /\ ItemOf(attrs, q[1]).args[q[2]].form = "from"}
FirstFrom(attrs) ==
    LET q == CHOOSE q \in Froms(attrs) :
                 \A r \in Froms(attrs) :
                     r = q \/ Before(q[1], r[1]) \/ (q[1] = r[1] /\ q[2] < r[2])
    IN  ItemOf(attrs, q[1]).args[q[2]]

C16_TupleStructOneField ==
    IsTupleStruct /\ pc = "done" =>
        /\ ~AnnotationsParse(input.attrs) =>
              /\ Rejected
              /\ ~Reported([tokens |-> ScopeSpan(1), message |-> OneFieldText])
        /\ AnnotationsParse(input.attrs) /\ Len(input.fields) # 1 =>
              /\ Rejected
              /\ output.compile_errors =
                    <<[compile_error |-> [tokens |-> ScopeSpan(1), message |-> OneFieldText]]>>
        /\ AnnotationsParse(input.attrs) /\ Len(input.fields) = 1 =>
              /\ \A n \in 1..Len(output.compile_errors) :
                    output.compile_errors[n].compile_error.message # OneFieldText
              /\ ItemsAt(input.attrs) = {} => Generated
              /\ Cardinality(ItemsAt(input.attrs)) = 1 /\ Cardinality(Froms(input.attrs)) = 1
                    => Generated
              /\ Generated =>
                    /\ output.artifact[1].shape = "TupleStruct"
                    /\ output.artifact[1].transformation =
                          IF Froms(input.attrs) = {}
                          THEN [kind |-> "None", ty |-> input.fields[1].ty, expr |-> ""]
                          ELSE [kind |-> "Transform", ty |-> FirstFrom(input.attrs).t1,
                                expr |-> FirstFrom(input.attrs).t2]

C16_Witness ==
    /\ IsTupleStruct
    /\ Len(input.fields) = 2
    /\ Cardinality(Froms(input.attrs)) = 1
    /\ Rejected
    /\ Reported([tokens |-> ScopeSpan(1), message |-> OneFieldText])

(***************************************************************************)
(* C17, as stated: the derive on a unit struct ends rejected, with the     *)
(* diagnostic that 'Snafu' can only be derived for an enum.                *)
(***************************************************************************)
IsUnitStruct == input.data = "Struct" /\ input.fields_kind = "Unit"
UnsupportedDiag ==
    [tokens |-> ScopeSpan(1),
     message |-> <<"Can only derive 'Snafu' for an enum or a newtype">>]

FieldNamesOf(variant) == [f \in 1..Len(variant.fields) |-> variant.fields[f].ident]
PlainVariant(variant, names) ==
    /\ variant.fields_kind = "Named"
    /\ FieldNamesOf(variant) = names
    /\ \A f \in 1..Len(variant.fields) : variant.fields[f].attrs = <<>>
    /\ \A p \in ItemsAt(variant.attrs) :
          ItemOf(variant.attrs, p).kw = "display" /\ ItemOf(variant.attrs, p).paren
    /\ Cardinality(ItemsAt(variant.attrs)) <= 1
TwoVariantScenario ==
    /\ input.data = "Enum"
    /\ input.attrs = <<>>
    /\ Len(input.variants) = 2
    /\ PlainVariant(input.variants[1], <<<<"id">>>>)
    /\ PlainVariant(input.variants[2], <<<<"id">>, <<"source">>>>)

C18_TwoVariantScenario ==
    TwoVariantScenario /\ pc = "done" =>
        /\ Generated
        /\ output.artifact[1].shape = "Enum"
        /\ Len(Containers) = 2
        /\ \A k \in 1..2 :
              /\ Containers[k].name = input.variants[k].ident
              /\ Containers[k].selector_kind.kind = "Context"
              /\ Containers[k].selector_kind.user_fields = <<FieldAt(k, 1)>>
              /\ Containers[k].backtrace_field = <<>>
        /\ Containers[1].selector_kind.source_field = <<>>
        /\ Containers[2].selector_kind.source_field =
              <<[name |-> "source",
                 transformation |->
                     [kind |-> "None", ty |-> input.variants[2].fields[2].ty, expr |-> ""],
                 backtrace_delegate |-> FALSE]>>

C18_Witness ==
    /\ TwoVariantScenario
    /\ Generated
    /\ Len(Containers) = 2
    /\ Containers[1].selector_kind.source_field = <<>>
    /\ Containers[2].selector_kind.source_field # <<>>

(***************************************************************************)
(* C19: an annotation whose path is neither snafu nor doc yields no        *)
(* attribute occurrence and no diagnostic, and the derive ends as it does  *)
(* on the input without these annotations: with the same generated         *)
(* information, or with the same diagnostics at the same annotations.      *)
(***************************************************************************)
IsPassedBy(ann) == ann.path \notin {"snafu", "doc"}
Strip(attrs) == SelectSeq(attrs, LAMBDA ann : ~IsPassedBy(ann))
StripFields(fields) == [f \in 1..Len(fields) |-> [fields[f] EXCEPT !.attrs = Strip(@)]]
StripInput(ty) ==
    [ty EXCEPT !.attrs = Strip(@),
               !.fields = StripFields(@),
               !.variants = [k \in 1..Len(@) |->
                               [@[k] EXCEPT !.attrs = Strip(@), !.fields = StripFields(@)]]]

(* the annotations of variant v (0: the container) or of its field f *)
AttrsOf(v, f) ==
    IF v = 0 THEN (IF f = 0 THEN input.attrs ELSE input.fields[f].attrs)
    ELSE IF f = 0 THEN input.variants[v].attrs
    ELSE input.variants[v].fields[f].attrs
Elements ==
    {<<0, 0>>} \cup {<<0, f>> : f \in 1..Len(input.fields)}
        \cup {<<k, 0>> : k \in 1..Len(input.variants)}
        \cup UNION {{<<k, f>> : f \in 1..Len(input.variants[k].fields)} :
                       k \in 1..Len(input.variants)}
(* the place in the input of annotation a counted without the passed ones *)
Kept(attrs) == {n \in 1..Len(attrs) : ~IsPassedBy(attrs[n])}
Replaced(span) ==
    IF span.a = 0 THEN span
    ELSE [span EXCEPT !.a = Ascending(Kept(AttrsOf(span.v, span.f)))[span.a]]
ReplacedDiags(errs) == [n \in 1..Len(errs) |-> [errs[n] EXCEPT !.tokens = Replaced(@)]]
ReplacedResult(res) ==
    IF res.ok THEN res ELSE [res EXCEPT !.err = ReplacedDiags(@)]

(* the derive of an enum or of a struct with named fields or none *)
DeriveOf(ty) ==
    LET Named(p) ==
            IF ~p.ok THEN Err(p.err)
            ELSE NamedStructFinish(
                     NamedStructContainer(IF ty.fields_kind = "Named" THEN ty.fields ELSE <<>>,
                                          ty.ident, ty.attrs, Span(0, 0, 0, 0, "type")),
                     ty.attrs)
        Collected(r, variants) ==
            IF variants.ok
            THEN Ok(EnumInfo(r.crate_root, ty.ident, Unwrap(variants.val),
                             r.default_visibility, r.module))
            ELSE Err(variants.err)
        Variants(r) ==
            LET step[n \in 0..Len(ty.variants)] ==
                  IF n = 0 THEN [errors |-> r.errors, sponge |-> [inner |-> <<>>, errors |-> <<>>]]
                  ELSE LET c == VariantClosure(ty.variants[n], n, step[n - 1].errors)
                       IN  [errors |-> c.errors,
                            sponge |-> AllErrors_step(step[n - 1].sponge, c.res)]
            IN  Collected(r, SyntaxErrors_absorb(step[Len(ty.variants)].errors,
                                AllErrors_into_result(step[Len(ty.variants)].sponge)))
        Enum(p) == IF ~p.ok THEN Err(p.err) ELSE Variants(EnumResolved(Unwrap(p.val)))
    IN  IF ty.data = "Enum" THEN Enum(attributes_from_syn(ty.attrs, 0, 0))
        ELSE Named(attributes_from_syn(ty.attrs, 0, 0))

Occurrences(e) ==
    LET parsed == attributes_from_syn(AttrsOf(e[1], e[2]), e[1], e[2])
    IN  IF parsed.ok THEN Unwrap(parsed.val) ELSE <<>>
AllDiagnostics ==
    {errors[n] : n \in 1..Len(errors)}
        \cup {output.compile_errors[n].compile_error : n \in 1..Len(output.compile_errors)}
        \cup UNION {{mapped[k].err[n] : n \in 1..Len(mapped[k].err)} : k \in 1..Len(mapped)}
PointsAtPassed(span) == span.a # 0 /\ IsPassedBy(AttrsOf(span.v, span.f)[span.a])
HasPassed == \E e \in Elements : Kept(AttrsOf(e[1], e[2])) # 1..Len(AttrsOf(e[1], e[2]))

DocLinesOf(attrs) ==
    LET docs == SelectSeq(attrs, LAMBDA ann : ann.path = "doc" /\ ann.doc # <<>>)
    IN  [n \in 1..Len(docs) |-> docs[n].doc[1]]
IsBlank(line) == \A n \in 1..Len(line) : line[n] \in {" ", "\t", "\n"}
Inked(line) == {n \in 1..Len(line) : line[n] \notin {" ", "\t", "\n"}}
Greatest(S) == CHOOSE x \in S : \A y \in S : y <= x
Bare(line) == SubSeq(line, Least(Inked(line)), Greatest(Inked(line)))
SummaryLines(lines) ==
    LET blanks == {n \in 1..Len(lines) : IsBlank(lines[n])}
    IN  SubSeq(lines, 1, IF blanks = {} THEN Len(lines) ELSE Least(blanks) - 1)
RECURSIVE SpaceJoined(_)
SpaceJoined(lines) ==
    IF lines = <<>> THEN <<>>
    ELSE IF Len(lines) = 1 THEN Bare(lines[1])
    ELSE Bare(lines[1]) \o <<" ">> \o SpaceJoined(Tail(lines))
Summary(attrs) == SpaceJoined(SummaryLines(DocLinesOf(attrs)))

C20_DocSummary ==
    /\ \A k \in 1..Len(mapped) :
          mapped[k].ok => mapped[k].val[1].doc_comment = Summary(ScopeOf(k).attrs)
    /\ \A k \in 1..Len(Containers) : Containers[k].doc_comment = Summary(ScopeOf(k).attrs)

C20_Witness ==
    /\ Generated
    /\ Len(Containers) = 1
    /\ Len(DocLinesOf(ScopeOf(1).attrs)) = 3
    /\ ~IsBlank(DocLinesOf(ScopeOf(1).attrs)[1])
    /\ DocLinesOf(ScopeOf(1).attrs)[1] # Bare(DocLinesOf(ScopeOf(1).attrs)[1])
    /\ IsBlank(DocLinesOf(ScopeOf(1).attrs)[2])
    /\ ~IsBlank(DocLinesOf(ScopeOf(1).attrs)[3])
    /\ Containers[1].doc_comment = Bare(DocLinesOf(ScopeOf(1).attrs)[1])

(***************************************************************************)
(* C21: when a scope whose annotations parse carries both whatever and a   *)
(* context that enables context, the two diagnostics of the pair are       *)
(* reported, the scope is still resolved to a selector kind, and every     *)
(* other diagnostic recorded for this scope and for the other scopes of    *)
(* the container is reported with them.                                    *)
(***************************************************************************)
C21_CompatibilityNonFatal ==
    \A k \in 1..Len(mapped) :
        EnabledContextAndWhatever(ScopeOf(k)) /\ pc = "done" =>
            /\ Reported(AtFirst(k, "context"))
            /\ Reported(AtFirst(k, "whatever"))
            /\ \A n \in 1..Len(errors) : Reported(errors[n])

(***************************************************************************)
(* C22: an annotation that does not parse stops the analysis of its own    *)
(* scope only.  Whatever the annotations of the enum itself, each variant  *)
(* with named fields or none whose annotations parse is analysed, so a     *)
(* source item misplaced on it is reported; and a variant's own annotation *)
(* that does not parse is reported whatever its siblings and the enum      *)
(* carry.                                                                  *)
(***************************************************************************)
ReportedAt(span) ==
    \E n \in 1..Len(output.compile_errors) :
        output.compile_errors[n].compile_error.tokens = span

C22_GrammarErrorScoped ==
    pc = "done" /\ input.data = "Enum" =>
        \A k \in 1..Len(input.variants) :
            input.variants[k].fields_kind # "Unnamed" =>
                /\ AnnotationsParse(input.variants[k].attrs) =>
                      \A p \in KwAt(input.variants[k].attrs, "source") :
                          ReportedAt(ItemSpan(k, 0, p))
                /\ \A p \in KwAt(input.variants[k].attrs, "bogus") : ReportedAt(ItemSpan(k, 0, p))

(***************************************************************************)
(* C23, as stated: every source or backtrace item with a list of k         *)
(* argument forms is taken by the parser and stands for k occurrences.     *)
(***************************************************************************)
ElementAttrs(e) == AttrsOf(e[1], e[2])
Expandable(e) ==
    {p \in ItemsAt(ElementAttrs(e)) : ItemOf(ElementAttrs(e), p).kw \in {"source", "backtrace"}}
(* the occurrences that the parser hands over for the item at p *)
OccurrencesAt(e, p) ==
    SelectSeq(Occurrences(e), LAMBDA occ : occ.tokens = ItemSpan(e[1], e[2], p))
ComponentsAt(e, p) ==
    IF OccurrencesAt(e, p) = <<>> THEN <<>>
    ELSE IF OccurrencesAt(e, p)[1].kind = "Source" THEN OccurrencesAt(e, p)[1].ss
    ELSE <<OccurrencesAt(e, p)[1].b>>
FormsAt(e, p) ==
    IF ItemOf(ElementAttrs(e), p).paren THEN Len(ItemOf(ElementAttrs(e), p).args) ELSE 1

C23_AsStated ==
    \A e \in Elements :
        (\A p \in ItemsAt(ElementAttrs(e)) : ItemOf(ElementAttrs(e), p).kw # "bogus") =>
            \A p \in Expandable(e) : Len(ComponentsAt(e, p)) = FormsAt(e, p)

(***************************************************************************)
(* C23: a source item with a list of k argument forms is one occurrence    *)
(* with k components, in the order of the arguments: Flag(b) for a bool    *)
(* and From(T, e) for from(T, e); a bare source is the one component       *)
(* Flag(true).  A backtrace item takes at most one bool and is one         *)
(* occurrence with that value (true when bare); with any other number of   *)
(* arguments its annotation does not parse and the element is left with    *)
(* the diagnostic at the item and no occurrence.                           *)
(***************************************************************************)
ComponentOf(arg) ==
    IF arg.form = "bool" THEN [tag |-> "Flag", v |-> arg.t1 = "true", ty |-> "", expr |-> ""]
    ELSE [tag |-> "From", v |-> FALSE, ty |-> arg.t1, expr |-> arg.t2]
Overfull(it) == it.kw = "backtrace" /\ it.paren /\ Len(it.args) # 1

C23_ArgumentForms ==
    \A e \in Elements :
        /\ AnnotationsParse(ElementAttrs(e)) =>
              \A p \in Expandable(e) :
                  LET it == ItemOf(ElementAttrs(e), p)
                  IN  /\ Len(OccurrencesAt(e, p)) = 1
                      /\ it.kw = "source" =>
                            /\ Len(ComponentsAt(e, p)) = FormsAt(e, p)
                            /\ ~it.paren =>
                                  ComponentsAt(e, p) =
                                      <<[tag |-> "Flag", v |-> TRUE, ty |-> "", expr |-> ""]>>
                            /\ it.paren =>
                                  \A n \in 1..Len(it.args) :
                                      ComponentsAt(e, p)[n] = ComponentOf(it.args[n])
                      /\ it.kw = "backtrace" =>
                            ComponentsAt(e, p) =
                                <<IF it.paren THEN it.args[1].t1 = "true" ELSE TRUE>>
        /\ \A p \in ItemsAt(ElementAttrs(e)) :
              Overfull(ItemOf(ElementAttrs(e), p)) =>
                  /\ Occurrences(e) = <<>>
                  /\ \E n \in 1..Len(attributes_from_syn(ElementAttrs(e), e[1], e[2]).err) :
                        attributes_from_syn(ElementAttrs(e), e[1], e[2]).err[n].tokens.a = p[1]
                  /\ pc = "done" => Rejected

C23_Witness ==
    /\ pc = "done"
    /\ \E e \in Elements :
          /\ e[2] # 0
          /\ (IF e[1] = 0 THEN input.fields[e[2]] ELSE input.variants[e[1]].fields[e[2]]).ident
                = <<"source">>
          /\ Len(ElementAttrs(e)) = 1
          /\ ComponentsAt(e, <<1, 1>>) =
                <<[tag |-> "From", v |-> FALSE, ty |-> "A", expr |-> "a"],
                  [tag |-> "Flag", v |-> FALSE, ty |-> "", expr |-> ""]>>
    /\ \E n \in 1..Len(errors) : errors[n].message = IncompatibleText

(***************************************************************************)
(* C24: an attribute repeated on a scope records one duplicate diagnostic  *)
(* for each occurrence after the first and leaves the scope resolved; the  *)
(* display template, the visibility, the module, the selector kind with    *)
(* its suffix and the transformation of the causal field are those of the  *)
(* first occurrence, and so are the crate root, the module and the default *)
(* visibility of an enum.                                                  *)
(***************************************************************************)
FirstItem(attrs, kw) == ItemOf(attrs, FirstKw(attrs, kw))
FirstOr(attrs, kw, value(_), default) ==
    IF KwAt(attrs, kw) = {} THEN default ELSE value(FirstItem(attrs, kw))
ArgsOf(it) == it.args
WrittenArgs(it) == IF it.paren THEN it.args ELSE <<>>
ModuleNamed(it) ==
    IF it.paren THEN [kind |-> "Custom", ident |-> it.args[1].t1]
    ELSE [kind |-> "Default", ident |-> ""]
SuffixOf(it) ==
    IF ~it.paren \/ it.args[1].form = "bool" THEN [kind |-> "None", ident |-> ""]
    ELSE IF it.args[1].t2 = "ident" THEN [kind |-> "Some", ident |-> it.args[1].t1]
    ELSE IF it.args[1].t1 = "true" THEN [kind |-> "Default", ident |-> ""]
    ELSE [kind |-> "None", ident |-> ""]
(* the components of the source items of a field that mark it causal *)
Positives(field) ==
    {c \in {<<p[1], p[2], n>> : p \in KwAt(field.attrs, "source"), n \in 0..MaxFieldAttrs} :
        LET it == ItemOf(field.attrs, <<c[1], c[2]>>)
        IN  IF it.paren
            THEN c[3] \in 1..Len(it.args) /\ ~IsLiteral(it.args[c[3]], "false")
            ELSE c[3] = 0}
Earlier(c, d) ==
    \/ Before(<<c[1], c[2]>>, <<d[1], d[2]>>)
    \/ (c[1] = d[1] /\ c[2] = d[2] /\ c[3] < d[3])
FirstTransformation(field) ==
    IF Positives(field) = {} THEN [kind |-> "None", ty |-> field.ty, expr |-> ""]
    ELSE LET c == CHOOSE c \in Positives(field) :
                      \A d \in Positives(field) : d = c \/ Earlier(c, d)
             it == ItemOf(field.attrs, <<c[1], c[2]>>)
         IN  IF c[3] # 0 /\ it.args[c[3]].form = "from"
             THEN [kind |-> "Transform", ty |-> it.args[c[3]].t1, expr |-> it.args[c[3]].t2]
             ELSE [kind |-> "None", ty |-> field.ty, expr |-> ""]
Later(attrs, kw) ==
    IF KwAt(attrs, kw) = {} THEN {} ELSE KwAt(attrs, kw) \ {FirstKw(attrs, kw)}
DuplicateRecorded(kw, span) ==
    \E n \in 1..Len(errors) :
        /\ errors[n].tokens = span
        /\ Len(errors[n].message) = 4
        /\ errors[n].message[1] = "Multiple '"
        /\ errors[n].message[2] = kw
        /\ errors[n].message[3] = "' attributes are not supported "

C24_FirstOccurrenceWins ==
    /\ \A k \in 1..Len(mapped) :
          mapped[k].ok =>
              LET fc == mapped[k].val[1]
                  scope == ScopeOf(k)
              IN  /\ fc.display_format = FirstOr(scope.attrs, "display", LAMBDA it : <<it.args>>, <<>>)
                  /\ fc.visibility =
                        FirstOr(scope.attrs, "visibility", LAMBDA it : <<WrittenArgs(it)>>, <<>>)
                  /\ fc.module =
                        FirstOr(scope.attrs, "module", LAMBDA it : <<ModuleNamed(it)>>, <<>>)
                  /\ HasContext(scope) /\ HasWhatever(scope) =>
                        fc.selector_kind.kind = "Whatever"
                  /\ HasContext(scope) /\ ~HasWhatever(scope) =>
                        IF ContextDisables(FirstContext(scope))
                        THEN fc.selector_kind.kind = "NoContext"
                        ELSE /\ fc.selector_kind.kind = "Context"
                             /\ fc.selector_kind.suffix = SuffixOf(FirstContext(scope))
                  /\ fc.selector_kind.source_field # <<>> =>
                        /\ CausalFields(scope) # {}
                        /\ fc.selector_kind.source_field[1].transformation =
                              FirstTransformation(scope.fields[Least(CausalFields(scope))])
                  /\ \A kw \in {"display", "visibility", "module", "context", "whatever"} :
                        \A p \in Later(scope.attrs, kw) :
                            DuplicateRecorded(kw, ItemSpan(ScopeV(k), 0, p))
                  /\ \A f \in 1..Len(scope.fields) :
                        \A c \in Positives(scope.fields[f]) :
                            (\E d \in Positives(scope.fields[f]) : Earlier(d, c)) =>
                                DuplicateRecorded("source", ItemSpan(ScopeV(k), f, <<c[1], c[2]>>))
    /\ input.data = "Enum" /\ pc # "start" /\ AnnotationsParse(input.attrs) =>
          /\ enum_info.crate_root =
                FirstOr(input.attrs, "crate_root", ArgsOf, <<ArgTokens("::snafu")>>)
          /\ enum_info.module = FirstOr(input.attrs, "module", LAMBDA it : <<ModuleNamed(it)>>, <<>>)
          /\ enum_info.default_visibility =
                FirstOr(input.attrs, "visibility", WrittenArgs,
                        IF KwAt(input.attrs, "module") = {} THEN <<>> ELSE <<ArgTokens("pub")>>)
          /\ \A kw \in {"crate_root", "visibility", "module"} :
                \A p \in Later(input.attrs, kw) : DuplicateRecorded(kw, ItemSpan(0, 0, p))

C24_Witness ==
    /\ pc = "done"
    /\ input.data = "Enum"
    /\ Cardinality(KwAt(input.attrs, "crate_root")) = 2
    /\ enum_info.crate_root = <<ArgTokens("a")>>
    /\ \E k \in 1..Len(mapped) :
          /\ mapped[k].ok
          /\ \A kw \in {"display", "visibility", "context"} :
                Cardinality(KwAt(ScopeOf(k).attrs, kw)) = 2
          /\ mapped[k].val[1].display_format = <<<<ArgTokens("x")>>>>
          /\ mapped[k].val[1].selector_kind.suffix = [kind |-> "Some", ident |-> "Ctx"]
          /\ mapped[k].val[1].selector_kind.source_field[1].transformation.ty = "A"
          /\ Cardinality(Positives(ScopeOf(k).fields[2])) = 2
    /\ Rejected

(***************************************************************************)
(* C25: a result is either a success that carries a value and no           *)
(* diagnostic, or a failure that carries no value and at least one         *)
(* diagnostic.  This holds for the parse of the annotations of every       *)
(* element, for the result of every scope, for what the sponge hands back, *)
(* for the result of the derive, and for its output: a derive that ends    *)
(* without artifacts ends with at least one compile error.                 *)
(***************************************************************************)
WellFormedResult(res) ==
    IF res.ok THEN res.val # <<>> /\ res.err = <<>>
    ELSE res.val = <<>> /\ res.err # <<>>

C25_FailureHasDiagnostics ==
    /\ \A e \in Elements :
          WellFormedResult(attributes_from_syn(ElementAttrs(e), e[1], e[2]))
    /\ \A k \in 1..Len(mapped) : WellFormedResult(mapped[k])
    /\ WellFormedResult(AllErrors_into_result(sponge))
    /\ result # <<>> => WellFormedResult(result[1])
    /\ pc = "done" => (output.artifact = <<>> <=> output.compile_errors # <<>>)

C25_Witness ==
    /\ pc = "done"
    /\ input.data = "Enum"
    /\ \E k \in 1..Len(mapped) : ~mapped[k].ok /\ mapped[k].err # <<>>
    /\ \E k \in 1..Len(mapped) : mapped[k].ok
    /\ ~AllErrors_into_result(sponge).ok
    /\ ~result[1].ok
    /\ Len(output.compile_errors) = Len(result[1].err)
    /\ output.compile_errors # <<>>

(* the causal field the container keeps, less its transformation *)
CausalOf(k) ==
    IF CausalFields(ScopeOf(k)) = {} THEN <<>>
    ELSE LET field == ScopeOf(k).fields[Least(CausalFields(ScopeOf(k)))]
         IN  <<[name |-> field.ident[1],
                backtrace_delegate |-> Qualifies(field, "backtrace")]>>
KeptCausal(k) ==
    [n \in 1..Len(Kind(k).source_field) |->
        [name |-> Kind(k).source_field[n].name,
         backtrace_delegate |-> Kind(k).source_field[n].backtrace_delegate]]

(* C26: every field of a scope has exactly one role, causal before trace:    *)
(* causal if it has a positive source occurrence or is named source          *)
(* without opt-out; otherwise trace if it has a positive backtrace           *)
(* occurrence or is named backtrace without opt-out; otherwise               *)
(* user-visible.  The user-visible fields are kept in order, the first       *)
(* causal and the first trace field are the ones kept, a causal field        *)
(* delegates its trace exactly when it also qualifies as trace, and it is    *)
(* never kept as the trace field nor as a user-visible field.                *)
C26_OneRolePerField ==
    \A k \in 1..Len(mapped) :
        ScopeParses(ScopeOf(k)) /\ mapped[k].ok /\ Kind(k).kind = "Context" =>
            /\ Kind(k).user_fields = FieldsAt(k, UserFields(ScopeOf(k)))
            /\ mapped[k].val[1].backtrace_field =
                  (IF TraceFields(ScopeOf(k)) = {} THEN <<>>
                   ELSE <<FieldAt(k, Least(TraceFields(ScopeOf(k))))>>)
            /\ KeptCausal(k) = CausalOf(k)
            /\ \A f \in CausalFields(ScopeOf(k)) :
                  ~UserFieldOf(k, f) /\ ~TraceFieldOf(k, f)
            /\ \A f \in TraceFields(ScopeOf(k)) : ~UserFieldOf(k, f)
            /\ \A f \in UserFields(ScopeOf(k)) : UserFieldOf(k, f) /\ ~TraceFieldOf(k, f)

(* a field named backtrace and marked source delegates its trace, next to    *)
(* a user-visible field                                                      *)
C26_Witness ==
    /\ pc = "done"
    /\ Len(mapped) = 1
    /\ mapped[1].ok
    /\ Len(ScopeOf(1).fields) = 2
    /\ ScopeOf(1).fields[1].ident = <<"backtrace">>
    /\ KwAt(ScopeOf(1).fields[1].attrs, "source") # {}
    /\ ScopeOf(1).fields[2].ident = <<"id">>
    /\ Kind(1).kind = "Context"
    /\ KeptCausal(1) = <<[name |-> "backtrace", backtrace_delegate |-> TRUE]>>
    /\ mapped[1].val[1].backtrace_field = <<>>
    /\ Len(Kind(1).user_fields) = 1
    /\ Generated

(* the role the classifier gives one field taken alone, and the flag of a    *)
(* causal field                                                              *)
RoleOf(syn_field, v, f) ==
    LET Read(acc) ==
            IF IsSome(acc.early) THEN [role |-> "none", delegate |-> FALSE]
            ELSE IF acc.source_fields.values # <<>>
            THEN [role |-> "causal",
                  delegate |-> acc.source_fields.values[1].item.backtrace_delegate]
            ELSE IF acc.backtrace_fields.values # <<>>
            THEN [role |-> "trace", delegate |-> FALSE]
            ELSE [role |-> "user", delegate |-> FALSE]
    IN  Read(FieldStep(FieldLoopInit(<<>>, "OnField"), syn_field, v, f))
Reordered(attrs) ==
    {[n \in 1..Len(attrs) |-> attrs[p[n]]] : p \in Permutations(1..Len(attrs))}

(* C27: the role of a field (causal, trace or user-visible) and, for a       *)
(* causal field, its delegates-trace flag are the same for every             *)
(* permutation of the annotations of the field; and the role is the one the  *)
(* container keeps the field under.                                          *)
C27_RoleOrderFree ==
    \A k \in 1..Len(mapped) :
        \A f \in 1..Len(ScopeOf(k).fields) :
            LET field == ScopeOf(k).fields[f]
            IN  /\ \A r \in Reordered(field.attrs) :
                      RoleOf([field EXCEPT !.attrs = r], ScopeV(k), f) =
                          RoleOf(field, ScopeV(k), f)
                /\ mapped[k].ok /\ Kind(k).kind = "Context" =>
                      /\ RoleOf(field, ScopeV(k), f).role = "user" <=> UserFieldOf(k, f)
                      /\ TraceFieldOf(k, f) => RoleOf(field, ScopeV(k), f).role = "trace"
                      /\ RoleOf(field, ScopeV(k), f).role = "causal" =>
                            /\ Kind(k).source_field # <<>>
                            /\ f = Least(CausalFields(ScopeOf(k))) =>
                                  Kind(k).source_field[1].backtrace_delegate =
                                      RoleOf(field, ScopeV(k), f).delegate

(* a field named backtrace that carries an opt-out and a positive            *)
(* occurrence, and a source, in an order that is not the only one            *)
C27_Witness ==
    /\ pc = "done"
    /\ Len(mapped) = 1
    /\ mapped[1].ok
    /\ \E f \in 1..Len(ScopeOf(1).fields) :
          /\ ScopeOf(1).fields[f].ident = <<"backtrace">>
          /\ Len(ScopeOf(1).fields[f].attrs) = 2
          /\ Cardinality(Reordered(ScopeOf(1).fields[f].attrs)) = 2
          /\ OptOut(ScopeOf(1).fields[f], "backtrace")
          /\ PositiveOccurrence(ScopeOf(1).fields[f], "backtrace")
          /\ TraceFieldOf(1, f)

EnablingContext(scope) ==
    /\ ScopeParses(scope)
    /\ ~HasWhatever(scope)
    /\ HasContext(scope)
    /\ ~ContextDisables(FirstContext(scope))
IsSuffix(it, text, as) ==
    it.paren /\ it.args[1].form = "suffix" /\ it.args[1].t1 = text /\ it.args[1].t2 = as
SuffixPolicy(kind, ident) == [kind |-> kind, ident |-> ident]

(* C28: with whatever absent, a context annotation that enables context      *)
(* resolves to the Context kind: context(suffix(true)) with the Default      *)
(* suffix policy, context(suffix(false)) with None, context(suffix(Ident))   *)
(* with Some(Ident), and the flag forms context and context(true) with       *)
(* None, not with the Default policy of a scope without a context            *)
(* annotation.                                                               *)
C28_ContextSuffixPolicy ==
    \A k \in 1..Len(mapped) :
        /\ EnablingContext(ScopeOf(k)) =>
              /\ mapped[k].ok
              /\ Kind(k).kind = "Context"
              /\ IsSuffix(FirstContext(ScopeOf(k)), "true", "bool") =>
                    Kind(k).suffix = SuffixPolicy("Default", "")
              /\ IsSuffix(FirstContext(ScopeOf(k)), "false", "bool") =>
                    Kind(k).suffix = SuffixPolicy("None", "")
              /\ IsSuffix(FirstContext(ScopeOf(k)), "Ctx", "ident") =>
                    Kind(k).suffix = SuffixPolicy("Some", "Ctx")
              /\ ~FirstContext(ScopeOf(k)).paren => Kind(k).suffix = SuffixPolicy("None", "")
              /\ FirstContext(ScopeOf(k)).paren
                   /\ IsLiteral(FirstContext(ScopeOf(k)).args[1], "true") =>
                    Kind(k).suffix = SuffixPolicy("None", "")
        /\ ScopeParses(ScopeOf(k)) /\ ~HasWhatever(ScopeOf(k)) /\ ~HasContext(ScopeOf(k)) =>
              /\ mapped[k].ok
              /\ Kind(k).kind = "Context"
              /\ Kind(k).suffix = SuffixPolicy("Default", "")

(* context(true) on a variant: a generated Context selector without suffix *)
C28_Witness ==
    /\ Generated
    /\ input.data = "Enum"
    /\ Len(mapped) = 1
    /\ EnablingContext(ScopeOf(1))
    /\ FirstContext(ScopeOf(1)).paren
    /\ IsLiteral(FirstContext(ScopeOf(1)).args[1], "true")
    /\ Kind(1).kind = "Context"
    /\ Kind(1).suffix = SuffixPolicy("None", "")

(* where an element of the input is, as the diagnostics name it *)
LocationOf(e) ==
    IF e[2] # 0 THEN "OnField"
    ELSE IF e[1] # 0 THEN "OnVariant"
    ELSE IF input.data = "Enum" THEN "OnEnum"
    ELSE IF input.fields_kind = "Unnamed" THEN "OnTupleStruct"
    ELSE "OnNamedStruct"
(* the attributes that the handler of a location answers with a diagnostic *)
RejectedAt(location) ==
    CASE location = "OnEnum" -> {"display", "source", "backtrace", "context", "whatever"}
      [] location = "OnVariant" -> {"source", "backtrace", "crate_root"}
      [] location = "OnNamedStruct" -> {"source", "backtrace"}
      [] location = "OnField" ->
             {"module", "visibility", "display", "context", "whatever", "crate_root"}
      [] location = "OnTupleStruct" ->
             {"module", "display", "visibility", "backtrace", "context", "whatever"}
NamesOf(kw) == IF kw = "source" THEN {"source", "source(bool)", "source(from)"} ELSE {kw}
EveryAnnotationParses == \A e \in Elements : AnnotationsParse(ElementAttrs(e))
NamedOnly ==
    /\ input.data = "Struct" => input.fields_kind \in {"Named", "Unnamed"}
    /\ \A k \in 1..Len(input.variants) : input.variants[k].fields_kind # "Unnamed"
(* an only-valid-on diagnostic at the item that names one of names and the   *)
(* location                                                                  *)
FinalDiagnostics ==
    errors \o [n \in 1..Len(output.compile_errors) |-> output.compile_errors[n].compile_error]
OnlyValidRecorded(span, names, location) ==
    \E n \in 1..Len(FinalDiagnostics) :
        /\ FinalDiagnostics[n].tokens = span
        /\ Len(FinalDiagnostics[n].message) = 6
        /\ FinalDiagnostics[n].message[1] = "'"
        /\ FinalDiagnostics[n].message[2] \in names
        /\ FinalDiagnostics[n].message[3] = "' attribute is only valid on "
        /\ FinalDiagnostics[n].message[5] = ", not "
        /\ FinalDiagnostics[n].message[6] = ErrorLocationDisplay(location)
(* no scope ends in a structural error that returns at once *)
NoFatalError ==
    /\ IsTupleStruct => Len(input.fields) = 1
    /\ \A k \in 1..Len(mapped) : mapped[k].ok
Misused(e) ==
    {p \in ItemsAt(ElementAttrs(e)) :
        ItemOf(ElementAttrs(e), p).kw \in RejectedAt(LocationOf(e))}

(* C29: every attribute used at a scope that does not accept it records an   *)
(* only-valid-on diagnostic that names the attribute misused and the scope   *)
(* where it was found, for each of display, source, backtrace, visibility,   *)
(* module, context, whatever and crate_root at each scope that rejects it.   *)
C29_MisuseNamed ==
    pc = "done" /\ EveryAnnotationParses /\ NamedOnly /\ NoFatalError =>
        \A e \in Elements :
            \A p \in Misused(e) :
                OnlyValidRecorded(ItemSpan(e[1], e[2], p),
                                  NamesOf(ItemOf(ElementAttrs(e), p).kw), LocationOf(e))

VariantModules(k) == KwAt(input.variants[k].attrs, "module")
(* the input without the module attributes of its variants; used where no   *)
(* other item shares an annotation with one                                 *)
WithoutVariantModules(ty) ==
    [ty EXCEPT !.variants =
        [k \in 1..Len(ty.variants) |->
            [ty.variants[k] EXCEPT !.attrs =
                SelectSeq(@, LAMBDA ann : \A i \in 1..Len(ann.items) :
                                              ann.items[i].kw # "module")]]]
SelectorsOf(info) ==
    [k \in 1..Len(info.variants) |->
        unwrap_or_else(info.variants[k].visibility, info.default_visibility)]

====
